---------------------------- MODULE Spec2Model ----------------------------
(***************************************************************************)
(* A model of the command-intent resolution and line-based code mutation   *)
(* engine: model/code_analyzer.py, model/command_parser.py,                *)
(* model/code_generator.py and model/javis.py.                             *)
(*                                                                         *)
(* Source text is a sequence of lines (the value of code.split('\n')),     *)
(* each line a string.  Python's None is the value None below; a Python    *)
(* dict is a function whose DOMAIN is the set of its keys.  A call that    *)
(* raises is the value Raised(...): an exception is an outcome of the      *)
(* operation, never a missing state.                                       *)
(***************************************************************************)
EXTENDS Integers, Sequences, FiniteSets, TLC

(***************************************************************************)
(* Characters and the str methods the program uses.                        *)
(***************************************************************************)
UpperChars == "ABCDEFGHIJKLMNOPQRSTUVWXYZ"
LowerChars == "abcdefghijklmnopqrstuvwxyz"
DigitChars == "0123456789"

CharsOf(s) == { SubSeq(s, i, i) : i \in 1..Len(s) }

LowerOf == [c \in CharsOf(UpperChars) |->
              LET i == CHOOSE k \in 1..Len(UpperChars) : SubSeq(UpperChars, k, k) = c
              IN  SubSeq(LowerChars, i, i)]

UpperOf == [c \in CharsOf(LowerChars) |->
              LET i == CHOOSE k \in 1..Len(LowerChars) : SubSeq(LowerChars, k, k) = c
              IN  SubSeq(UpperChars, i, i)]

AlnumSet == CharsOf(UpperChars) \cup CharsOf(LowerChars) \cup CharsOf(DigitChars)

\* str.isalnum() of one character
isalnum(c) == c \in AlnumSet

\* a character of a Python identifier, and of the regular expression class \w
IsWordChar(c) == c \in AlnumSet \/ c = "_"

\* a character of the regular expression class \s, and of str.strip()
IsSpace(c) == c \in {" ", "\t", "\n", "\r"}

Min(S) == CHOOSE x \in S : \A y \in S : x <= y
Max(S) == CHOOSE x \in S : \A y \in S : x >= y

\* the i-th character of s, 0-based as s[i]
At(s, i) == SubSeq(s, i + 1, i + 1)

\* s[a:b] with Python's clamping and negative indices
PySlice(s, a, b) ==
    LET n  == Len(s)
        na == IF a < 0 THEN (IF n + a < 0 THEN 0 ELSE n + a) ELSE (IF a > n THEN n ELSE a)
        nb == IF b < 0 THEN (IF n + b < 0 THEN 0 ELSE n + b) ELSE (IF b > n THEN n ELSE b)
    IN  IF na >= nb THEN "" ELSE SubSeq(s, na + 1, nb)

\* s[a:]
PyFrom(s, a) == PySlice(s, a, Len(s))

\* s[:b]
PyTo(s, b) == PySlice(s, 0, b)

RECURSIVE lower(_)
lower(s) == IF s = "" THEN ""
            ELSE (IF Head(s) \in DOMAIN LowerOf THEN LowerOf[Head(s)] ELSE Head(s))
                 \o lower(Tail(s))

\* str.capitalize()
capitalize(s) == IF s = "" THEN ""
                 ELSE (IF Head(s) \in DOMAIN UpperOf THEN UpperOf[Head(s)] ELSE Head(s))
                      \o lower(Tail(s))

\* s.find(sub, start): the lowest index >= start where sub occurs, or -1
find(s, sub, start) ==
    LET n == Len(s)
        m == Len(sub)
        hits == { i \in start..(n - m) : SubSeq(s, i + 1, i + m) = sub }
    IN  IF hits = {} THEN -1 ELSE Min(hits)

\* sub in s
Contains(s, sub) == find(s, sub, 0) >= 0

startswith(s, p) == Len(s) >= Len(p) /\ SubSeq(s, 1, Len(p)) = p

endswith(s, p) == Len(s) >= Len(p) /\ SubSeq(s, Len(s) - Len(p) + 1, Len(s)) = p

RECURSIVE lstrip(_)
lstrip(s) == IF s # "" /\ IsSpace(Head(s)) THEN lstrip(Tail(s)) ELSE s

RECURSIVE rstrip(_)
rstrip(s) == IF s # "" /\ IsSpace(At(s, Len(s) - 1)) THEN rstrip(PyTo(s, Len(s) - 1)) ELSE s

strip(s) == rstrip(lstrip(s))

\* s.split(sep) for a non-empty separator
RECURSIVE split(_, _)
split(s, sep) ==
    LET i == find(s, sep, 0)
    IN  IF i < 0 THEN <<s>>
        ELSE <<PyTo(s, i)>> \o split(PyFrom(s, i + Len(sep)), sep)

\* sep.join(parts)
RECURSIVE join(_, _)
join(sep, parts) ==
    IF parts = <<>> THEN ""
    ELSE IF Len(parts) = 1 THEN parts[1]
    ELSE parts[1] \o sep \o join(sep, Tail(parts))

\* list.insert(i, x) for 0 <= i: an index past the end appends
ListInsert(l, i, x) ==
    LET k == IF i > Len(l) THEN Len(l) ELSE i
    IN  SubSeq(l, 1, k) \o <<x>> \o SubSeq(l, k + 1, Len(l))

\* del l[a:b] for 0 <= a
ListDelete(l, a, b) ==
    LET na == IF a > Len(l) THEN Len(l) ELSE a
        nb == IF b > Len(l) THEN Len(l) ELSE b
    IN  IF na >= nb THEN l ELSE SubSeq(l, 1, na) \o SubSeq(l, nb + 1, Len(l))

\* l with l[i] replaced, 0-based
ListSet(l, i, x) == [l EXCEPT ![i + 1] = x]

SeqToSet(q) == { q[i] : i \in 1..Len(q) }

RECURSIVE FlattenSeq(_)
FlattenSeq(qq) == IF qq = <<>> THEN <<>> ELSE Head(qq) \o FlattenSeq(Tail(qq))

\* the elements of q that satisfy Keep, in order
SelectIdx(q, Keep(_)) ==
    LET F[i \in 0..Len(q)] ==
            IF i = 0 THEN <<>>
            ELSE IF Keep(i) THEN Append(F[i - 1], q[i]) ELSE F[i - 1]
    IN  F[Len(q)]

(***************************************************************************)
(* Python's None.  No string of the program's inputs equals it; str(None)  *)
(* is "None".                                                              *)
(***************************************************************************)
None == "<None>"

\* str(v) as an f-string formats it
Str(v) == IF v = None THEN "None" ELSE v

\* the truth value of an optional string: None and "" are false
Truthy(v) == v # None /\ v # ""

(***************************************************************************)
(* The structural analyzer: ast.parse on the subset of Python the model's  *)
(* sources are written in (classes, defs, simple one-line statements,      *)
(* decorators, comments, blank lines; blocks by indentation with spaces),  *)
(* followed by CodeStructureExtractor.extract_structure.                   *)
(***************************************************************************)
Indent(line) == Len(line) - Len(lstrip(line))

IsBlankLine(line) == lstrip(line) = "" \/ startswith(lstrip(line), "#")

IsDecorator(line) == startswith(lstrip(line), "@")

CompoundKeywords == <<"class ", "def ", "for ", "while ", "if ", "elif ", "else", "match ", "case ">>

IsCompound(line) ==
    \E k \in 1..Len(CompoundKeywords) : startswith(lstrip(line), CompoundKeywords[k])

\* the index of the colon that ends a compound statement's header, or -1
HeaderColon(line) ==
    LET op == find(line, "(", 0)
        co == find(line, ":", 0)
    IN  IF op >= 0 /\ co >= 0 /\ op < co
        THEN (IF find(line, ")", op) >= 0 THEN find(line, ":", find(line, ")", op)) ELSE -1)
        ELSE co

\* the statement that follows the header's colon on the same line ("" if none)
InlineBody(line) ==
    LET rest == strip(PyFrom(line, HeaderColon(line) + 1))
    IN  IF startswith(rest, "#") THEN "" ELSE rest

ExpectsBlock(line) == IsCompound(line) /\ HeaderColon(line) >= 0 /\ InlineBody(line) = ""

\* the longest prefix of s made of \w characters
RECURSIVE WordPrefix(_)
WordPrefix(s) == IF s # "" /\ IsWordChar(Head(s)) THEN Head(s) \o WordPrefix(Tail(s)) ELSE ""

PyKeywords == {"None", "True", "False", "pass", "class", "def", "return", "if", "else", "for", "while"}

IsIdentifier(s) == s # "" /\ WordPrefix(s) = s /\ Head(s) \notin CharsOf(DigitChars) /\ s \notin PyKeywords

\* the name a "def" or "class" line defines
DefName(line) ==
    LET t == lstrip(line)
    IN  IF startswith(t, "def ") THEN WordPrefix(lstrip(PyFrom(t, 4)))
        ELSE IF startswith(t, "class ") THEN WordPrefix(lstrip(PyFrom(t, 6)))
        ELSE ""

\* the text between the header's parentheses, split on commas, stripped, empties dropped
ParenItems(line) ==
    LET op == find(line, "(", 0)
        cl == IF op >= 0 THEN find(line, ")", op) ELSE -1
        co == HeaderColon(line)
    IN  IF op < 0 \/ cl < 0 \/ (co >= 0 /\ op > co) THEN <<>>
        ELSE LET raw == split(PySlice(line, op + 1, cl), ",")
             IN  SelectIdx(raw, LAMBDA i : strip(raw[i]) # "")

\* [arg.arg for arg in node.args.args]
ArgNames(line) ==
    LET items == ParenItems(line)
    IN  [i \in 1..Len(items) |-> WordPrefix(strip(items[i]))]

\* [self._get_base_name(base) for base in node.bases]
BaseNames(line) ==
    LET items == ParenItems(line)
    IN  [i \in 1..Len(items) |-> strip(items[i])]

\* whether one significant line is a statement the parser accepts
StmtOK(line) ==
    LET t == lstrip(line)
    IN  IF startswith(t, "def ")
        THEN /\ HeaderColon(line) >= 0
             /\ IsIdentifier(DefName(line))
             /\ find(line, "(", 0) >= 0
             /\ strip(PySlice(t, 4 + Len(DefName(line)), find(t, "(", 0))) = ""
             /\ \A i \in 1..Len(ArgNames(line)) : IsIdentifier(ArgNames(line)[i])
        ELSE IF startswith(t, "class ")
        THEN /\ HeaderColon(line) >= 0
             /\ IsIdentifier(DefName(line))
             /\ LET after == strip(PySlice(t, 6 + Len(DefName(line)), HeaderColon(t)))
                IN  after = "" \/ (startswith(after, "(") /\ endswith(after, ")"))
        ELSE IF IsCompound(line) THEN HeaderColon(line) >= 0
        ELSE TRUE

\* the indices (1-based line numbers) of the lines that hold a statement
SigLines(lines) == SelectIdx([i \in 1..Len(lines) |-> i], LAMBDA i : ~IsBlankLine(lines[i]))

\* the tokenizer's indentation stack run over the significant lines
ParseOK(lines) ==
    LET sig == SigLines(lines)
        F[k \in 0..Len(sig)] ==
            IF k = 0 THEN [ok |-> TRUE, stack |-> <<0>>, expect |-> FALSE, deco |-> -1]
            ELSE LET p   == F[k - 1]
                     ln  == lines[sig[k]]
                     d   == Indent(ln)
                     top == p.stack[Len(p.stack)]
                     bad == [p EXCEPT !.ok = FALSE]
                     stk == IF d > top THEN Append(p.stack, d)
                            ELSE SelectSeq(p.stack, LAMBDA x : x <= d)
                 IN  IF ~p.ok THEN p
                     ELSE IF d > top /\ ~p.expect THEN bad
                     ELSE IF d <= top /\ p.expect THEN bad
                     ELSE IF d <= top /\ d \notin SeqToSet(p.stack) THEN bad
                     ELSE IF p.deco >= 0 /\ (d # p.deco \/ ~(IsDecorator(ln) \/ DefName(ln) # "")) THEN bad
                     ELSE IF ~IsDecorator(ln) /\ ~StmtOK(ln) THEN bad
                     ELSE [ok |-> TRUE, stack |-> stk, expect |-> ExpectsBlock(ln),
                           deco |-> IF IsDecorator(ln) THEN d ELSE -1]
        last == F[Len(sig)]
    IN  last.ok /\ ~last.expect /\ last.deco < 0

\* node.end_lineno of the statement at significant line k: the last significant
\* line of its block
EndSig(lines, sig, k) ==
    LET d == Indent(lines[sig[k]])
        later == { j \in (k + 1)..Len(sig) : Indent(lines[sig[j]]) <= d }
    IN  IF later = {} THEN Len(sig) ELSE Min(later) - 1

\* the statements directly in the body of the compound statement at significant line k
BodySig(lines, sig, k) ==
    LET e == EndSig(lines, sig, k)
    IN  IF e = k THEN <<>>
        ELSE LET bi == Indent(lines[sig[k + 1]])
                 idx == [j \in 1..(e - k) |-> k + j]
             IN  SelectIdx(idx, LAMBDA j : Indent(lines[sig[idx[j]]]) = bi)

\* _get_node_location (the line bounds; the column bounds are read by no operation)
Location(lines, sig, k) == [line_start |-> sig[k], line_end |-> sig[EndSig(lines, sig, k)]]

\* the attribute name assigned by a statement of the shape self.<name> = ..., or ""
AttrTarget(stmt) ==
    IF ~startswith(stmt, "self.") THEN ""
    ELSE LET nm   == WordPrefix(PyFrom(stmt, 5))
             rest == lstrip(PyFrom(stmt, 5 + Len(nm)))
         IN  IF nm # "" /\ startswith(rest, "=") /\ ~startswith(rest, "==") THEN nm ELSE ""

IsDef(line) == startswith(lstrip(line), "def ")

IsClass(line) == startswith(lstrip(line), "class ")

\* method_info of the def at significant line m
MethodInfo(lines, sig, m) ==
    [name |-> DefName(lines[sig[m]]),
     location |-> Location(lines, sig, m),
     arguments |-> ArgNames(lines[sig[m]])]

\* the attributes a constructor at significant line m creates, in order
InitAttributes(lines, sig, m) ==
    LET ln == lines[sig[m]]
        body == BodySig(lines, sig, m)
    IN  IF InlineBody(ln) # ""
        THEN (IF AttrTarget(InlineBody(ln)) # ""
              THEN << [name |-> AttrTarget(InlineBody(ln)),
                       location |-> [line_start |-> sig[m], line_end |-> sig[m]]] >>
              ELSE <<>>)
        ELSE LET hits == SelectIdx(body, LAMBDA j : AttrTarget(lstrip(lines[sig[body[j]]])) # "")
             IN  [j \in 1..Len(hits) |->
                    [name |-> AttrTarget(lstrip(lines[sig[hits[j]]])),
                     location |-> Location(lines, sig, hits[j])]]

\* class_info of the class at significant line k
ClassInfo(lines, sig, k) ==
    LET body == BodySig(lines, sig, k)
        defs == SelectIdx(body, LAMBDA j : IsDef(lines[sig[body[j]]]))
        inits == SelectIdx(defs, LAMBDA j : DefName(lines[sig[defs[j]]]) = "__init__")
    IN  [name |-> DefName(lines[sig[k]]),
         location |-> Location(lines, sig, k),
         bases |-> BaseNames(lines[sig[k]]),
         methods |-> [j \in 1..Len(defs) |-> MethodInfo(lines, sig, defs[j])],
         attributes |-> FlattenSeq([j \in 1..Len(inits) |-> InitAttributes(lines, sig, inits[j])])]

\* structure["classes"][node.name] = class_info on an insertion-ordered dict:
\* a repeated name keeps its first position and takes the last value
DictPut(d, info) ==
    IF \E i \in 1..Len(d) : d[i].name = info.name
    THEN [i \in 1..Len(d) |-> IF d[i].name = info.name THEN info ELSE d[i]]
    ELSE Append(d, info)

RECURSIVE DictFromSeq(_)
DictFromSeq(q) == IF q = <<>> THEN <<>> ELSE DictPut(DictFromSeq(SubSeq(q, 1, Len(q) - 1)), q[Len(q)])

\* the analyzer as it would be if a text that does not parse gave an empty inventory
extract_structure_keyed(lines) ==
    IF ~ParseOK(lines) THEN [status |-> "error", classes |-> <<>>, functions |-> <<>>]
    ELSE [status |-> "success", classes |-> <<>>, functions |-> <<>>]

\* CodeStructureExtractor.extract_structure
extract_structure(lines) ==
    IF ~ParseOK(lines) THEN [status |-> "error"]
    ELSE LET sig  == SigLines(lines)
             idx  == [k \in 1..Len(sig) |-> k]
             tops == SelectIdx(idx, LAMBDA k : Indent(lines[sig[k]]) = 0)
             cls  == SelectIdx(tops, LAMBDA j : IsClass(lines[sig[tops[j]]]))
             fns  == SelectIdx(tops, LAMBDA j : IsDef(lines[sig[tops[j]]]))
         IN  [status |-> "success",
              classes |-> DictFromSeq([j \in 1..Len(cls) |-> ClassInfo(lines, sig, cls[j])]),
              functions |-> [j \in 1..Len(fns) |-> MethodInfo(lines, sig, fns[j])]]

\* extract_code_structure
extract_code_structure(lines) == extract_structure(lines)

(***************************************************************************)
(* The code generator.  A CodeGenerator object is the record               *)
(* [original_code_lines, code_analysis, intent]; an operation maps it to   *)
(* an outcome: what the call returned or raised, which operation answered, *)
(* and the object after the call.  A returned string is held as its lines. *)
(***************************************************************************)

\* dict.get(key) and dict.get(key, default)
Get(d, key) == IF key \in DOMAIN d THEN d[key] ELSE None

GetOr(d, key, default) == IF key \in DOMAIN d THEN d[key] ELSE default

\* an operation as it would answer if it edited the loaded lines and not a copy of them
Return_in_place(g, elements, op) ==
    [kind |-> "return",
     value |-> IF elements = <<>> THEN <<"">>
               ELSE FlattenSeq([i \in 1..Len(elements) |-> split(elements[i], "\n")]),
     by |-> op,
     gen |-> [g EXCEPT !.original_code_lines = elements]]

\* '\n'.join(modified_lines), held as the lines of the joined string
JoinLines(elements) ==
    IF elements = <<>> THEN <<"">>
    ELSE FlattenSeq([i \in 1..Len(elements) |-> split(elements[i], "\n")])

Return(g, elements, op) ==
    [kind |-> "return", value |-> JoinLines(elements), by |-> op, gen |-> g]

Error(g, msg, op) ==
    [kind |-> "return", value |-> <<msg>>, by |-> op, gen |-> g]

Raise(g, exc, op) ==
    [kind |-> "raise", value |-> <<exc>>, by |-> op, gen |-> g]

\* self.code_analysis.get('classes', {}), an insertion-ordered dict
Classes(analysis) == GetOr(analysis, "classes", <<>>)

\* self.code_analysis.get('functions', [])
Functions(analysis) == GetOr(analysis, "functions", <<>>)

\* name in classes
InClasses(analysis, name) == \E i \in 1..Len(Classes(analysis)) : Classes(analysis)[i].name = name

\* classes[name]
ClassOf(analysis, name) ==
    Classes(analysis)[CHOOSE i \in 1..Len(Classes(analysis)) : Classes(analysis)[i].name = name]

\* a lookup loop that does not stop at its first hit
LookupClassCI_last(analysis, value) ==
    LET cs   == Classes(analysis)
        hits == { i \in 1..Len(cs) : lower(cs[i].name) = lower(value) }
    IN  IF hits = {} THEN None ELSE cs[Max(hits)].name

\* the case-insensitive lookup loop: the first class, in the dict's order, whose
\* lower-cased name equals the lower-cased value; None when there is none
LookupClassCI(analysis, value) ==
    LET cs   == Classes(analysis)
        hits == { i \in 1..Len(cs) : lower(cs[i].name) = lower(value) }
    IN  IF hits = {} THEN None ELSE cs[Min(hits)].name

\* the index of the first element of a list whose name satisfies Match; 0 when
\* there is none (the loop leaves its variable None)
FirstNamed(q, Match(_)) ==
    LET hits == { i \in 1..Len(q) : Match(q[i].name) }
    IN  IF hits = {} THEN 0 ELSE Min(hits)

get_indentation(line) == PyTo(line, Len(line) - Len(lstrip(line)))

get_class_indentation(g, class_name) ==
    IF ~InClasses(g.code_analysis, class_name) THEN "    "
    ELSE LET class_info == ClassOf(g.code_analysis, class_name)
         IN  IF class_info.methods # <<>>
             THEN LET line_index == class_info.methods[1].location.line_start - 1
                  IN  IF 0 <= line_index /\ line_index < Len(g.original_code_lines)
                      THEN get_indentation(g.original_code_lines[line_index + 1])
                      ELSE "    "
             ELSE "    "

\* "self" + (", " + ", ".join(parameters) if parameters else "")
SelfParams(parameters) ==
    "self" \o (IF parameters # <<>> THEN ", " \o join(", ", parameters) ELSE "")

\* add_method as it would be if the block went to the end of the file
add_method_appended(g) ==
    Return(g, Append(g.original_code_lines,
                     "    def " \o Str(Get(g.intent, "method_name")) \o "(self):\n        pass"), "add_method")

add_method(g) ==
    LET intent == g.intent
        method_name == Get(intent, "method_name")
        target_class == Get(intent, "target_class")
        parameters_raw == GetOr(intent, "parameters", <<>>)
        parameters == IF Len(parameters_raw) > 0
                      THEN split(strip(split(parameters_raw[1], " to ")[1]), ", ")
                      ELSE <<>>
    IN  IF Get(intent, "action") # "add_method" THEN Error(g, "Error: Intent is not add_method", "add_method")
        ELSE IF ~InClasses(g.code_analysis, target_class)
        THEN Error(g, "Error: Class " \o Str(target_class) \o " not found", "add_method")
        ELSE LET class_info == ClassOf(g.code_analysis, target_class)
                 class_end_line == class_info.location.line_end
                 indentation == get_class_indentation(g, target_class)
                 new_method == indentation \o "def " \o Str(method_name) \o "(" \o SelfParams(parameters)
                               \o "):\n" \o indentation \o "    pass"
             IN  Return(g, ListInsert(g.original_code_lines, class_end_line, new_method), "add_method")

\* remove_method as it would be if a method that is not found were no error
remove_method_silent(g) == Return(g, g.original_code_lines, "remove_method")

remove_method(g) ==
    LET intent == g.intent
        method_name == Get(intent, "method_name")
        target_class == Get(intent, "target_class")
        actual_class_name == IF Truthy(target_class)
                             THEN LookupClassCI(g.code_analysis, target_class) ELSE None
    IN  IF Get(intent, "action") # "remove_method"
        THEN Error(g, "Error: Intent is not remove_method", "remove_method")
        ELSE IF ~Truthy(actual_class_name)
        THEN Error(g, "Error: Class " \o Str(target_class) \o " not found", "remove_method")
        ELSE LET class_info == ClassOf(g.code_analysis, actual_class_name)
             IN  \* method_name.lower() is evaluated as soon as the loop has a method to compare
                 IF class_info.methods # <<>> /\ method_name = None
                 THEN Raise(g, "AttributeError", "remove_method")
                 ELSE LET found == FirstNamed(class_info.methods, LAMBDA n : lower(n) = lower(method_name))
                          method_to_remove == class_info.methods[found]
                      IN  IF found = 0
                          THEN Error(g, "Error: Method " \o Str(method_name) \o " not found in class "
                                        \o actual_class_name, "remove_method")
                          ELSE LET start_line == method_to_remove.location.line_start - 1
                                   end_line == method_to_remove.location.line_end
                               IN  Return(g, ListDelete(g.original_code_lines, start_line, end_line),
                                          "remove_method")

\* one entry of intent['methods'] as add_class renders it
ClassMethodStr(method) ==
    LET method_name == GetOr(method, "name", "unknown_method")
        params == GetOr(method, "params", <<>>)
        body == GetOr(method, "body", "pass")
    IN  "    def " \o Str(method_name) \o "(" \o SelfParams(params) \o "):\n        " \o body

\* max(insertion_line, location.line_end + 1) over a list of located entries
MaxEndPlusOne(start, q) ==
    Max({start} \cup { q[i].location.line_end + 1 : i \in 1..Len(q) })

add_class(g) ==
    LET intent == g.intent
        class_name == Get(intent, "class_name")
        base_classes == GetOr(intent, "base_classes", <<>>)
        methods == GetOr(intent, "methods", <<>>)
        attributes == GetOr(intent, "attributes", <<>>)
        insertion_line == MaxEndPlusOne(Len(g.original_code_lines), Classes(g.code_analysis))
        base_classes_str == IF base_classes # <<>> THEN "(" \o join(", ", base_classes) \o ")" ELSE ""
        class_def == "class " \o Str(class_name) \o base_classes_str \o ":"
        init_body == [i \in 1..Len(attributes) |-> "self." \o attributes[i] \o " = " \o attributes[i]]
        init_method == "    def __init__(" \o SelfParams(attributes) \o "):\n        "
                       \o join("\n        ", init_body)
        class_body0 == (IF attributes # <<>> THEN <<init_method>> ELSE <<>>)
                       \o [i \in 1..Len(methods) |-> ClassMethodStr(methods[i])]
        class_body == IF class_body0 = <<>> THEN <<"    pass">> ELSE class_body0
        new_class == class_def \o "\n" \o join("\n\n", class_body)
    IN  IF Get(intent, "action") # "add_class" THEN Error(g, "Error: Intent is not add_class", "add_class")
        ELSE IF ~Truthy(class_name) THEN Error(g, "Error: Missing class name", "add_class")
        ELSE Return(g, ListInsert(g.original_code_lines, insertion_line, "\n\n" \o new_class), "add_class")

\* remove_class as it would be if it deleted the header line of the class only
remove_class_header(g) ==
    LET class_name == Get(g.intent, "class_name")
    IN  IF Get(g.intent, "action") # "remove_class"
        THEN Error(g, "Error: Intent is not remove_class", "remove_class")
        ELSE IF ~InClasses(g.code_analysis, class_name)
        THEN Error(g, "Error: Class " \o Str(class_name) \o " not found", "remove_class")
        ELSE LET start_line == ClassOf(g.code_analysis, class_name).location.line_start - 1
             IN  Return(g, ListDelete(g.original_code_lines, start_line, start_line + 1), "remove_class")

remove_class(g) ==
    LET intent == g.intent
        class_name == Get(intent, "class_name")
    IN  IF Get(intent, "action") # "remove_class"
        THEN Error(g, "Error: Intent is not remove_class", "remove_class")
        ELSE IF ~InClasses(g.code_analysis, class_name)
        THEN Error(g, "Error: Class " \o Str(class_name) \o " not found", "remove_class")
        ELSE LET class_info == ClassOf(g.code_analysis, class_name)
                 start_line == class_info.location.line_start - 1
                 end_line == class_info.location.line_end
             IN  Return(g, ListDelete(g.original_code_lines, start_line, end_line), "remove_class")

\* the __init__ lookup loop: the index of the first method named __init__, or 0
InitIndex(class_info) == FirstNamed(class_info.methods, LAMBDA n : n = "__init__")

\* the constructor's definition line with attribute_name added to its parameter list
InitDefWithParam(init_def_line, attribute_name) ==
    LET param_start == find(init_def_line, "(", 0)
        param_end == find(init_def_line, ")", 0)
        params == strip(PySlice(init_def_line, param_start + 1, param_end))
        new_params == IF endswith(params, ",") THEN params \o " " \o attribute_name
                      ELSE IF params # "" THEN params \o ", " \o attribute_name
                      ELSE "self"
    IN  IF param_start >= 0 /\ param_end >= 0
        THEN PyTo(init_def_line, param_start + 1) \o new_params \o PyFrom(init_def_line, param_end)
        ELSE init_def_line

add_attribute(g) ==
    LET intent == g.intent
        target_class == Get(intent, "target_class")
        attribute_name == Get(intent, "attribute_name")
        actual_class_name == IF Truthy(target_class)
                             THEN LookupClassCI(g.code_analysis, target_class) ELSE None
    IN  IF Get(intent, "action") # "add_attribute"
        THEN Error(g, "Error: Intent is not add_attribute", "add_attribute")
        ELSE IF ~Truthy(target_class) THEN Error(g, "Error: Missing target class", "add_attribute")
        ELSE IF ~Truthy(attribute_name) THEN Error(g, "Error: Missing attribute name", "add_attribute")
        ELSE IF ~Truthy(actual_class_name)
        THEN Error(g, "Error: Class " \o target_class \o " not found", "add_attribute")
        ELSE LET class_info == ClassOf(g.code_analysis, actual_class_name)
                 init == InitIndex(class_info)
             IN  IF init = 0
                 THEN LET indentation == get_class_indentation(g, actual_class_name)
                          init_method_str == indentation \o "def __init__(self, " \o attribute_name \o "):\n"
                                             \o indentation \o "    self." \o attribute_name \o " = "
                                             \o attribute_name
                          class_start_line == class_info.location.line_start
                      IN  Return(g, ListInsert(g.original_code_lines, class_start_line, init_method_str),
                                 "add_attribute")
                 ELSE LET init_method == class_info.methods[init]
                          init_end_line == init_method.location.line_end - 1
                          init_line == g.original_code_lines[init_end_line + 1]
                          indentation == get_indentation(init_line)
                          attribute_line == indentation \o "self." \o attribute_name \o " = " \o attribute_name
                          inserted == ListInsert(g.original_code_lines, init_end_line, attribute_line)
                          init_start_line == init_method.location.line_start - 1
                          init_def_line == g.original_code_lines[init_start_line + 1]
                      IN  IF GetOr(intent, "add_parameter", TRUE)
                          THEN Return(g, ListSet(inserted, init_start_line,
                                                 InitDefWithParam(init_def_line, attribute_name)),
                                      "add_attribute")
                          ELSE Return(g, inserted, "add_attribute")

\* the constructor's definition line with the parameter named attribute_name removed
InitDefWithoutParam(init_def, attribute_name) ==
    LET param_start == find(init_def, "(", 0)
        param_end == find(init_def, ")", 0)
        raw == split(PySlice(init_def, param_start + 1, param_end), ",")
        params == [i \in 1..Len(raw) |-> strip(raw[i])]
        new_params == SelectSeq(params, LAMBDA q : lower(strip(q)) # lower(attribute_name))
    IN  IF param_start >= 0 /\ param_end >= 0
        THEN PyTo(init_def, param_start + 1) \o join(", ", new_params) \o PyFrom(init_def, param_end)
        ELSE init_def

remove_attribute(g) ==
    LET intent == g.intent
        target_class == Get(intent, "target_class")
        attribute_name ==
            IF ~Truthy(Get(intent, "attribute_name")) /\ "attributes" \in DOMAIN intent
               /\ Len(intent["attributes"]) > 0
            THEN intent["attributes"][1]
            ELSE Get(intent, "attribute_name")
        actual_class_name == IF Truthy(target_class)
                             THEN LookupClassCI(g.code_analysis, target_class) ELSE None
    IN  IF Get(intent, "action") # "remove_attribute"
        THEN Error(g, "Error: Intent is not remove_attribute", "remove_attribute")
        ELSE IF ~Truthy(target_class) THEN Error(g, "Error: Missing target class", "remove_attribute")
        ELSE IF ~Truthy(attribute_name) THEN Error(g, "Error: Missing attribute name", "remove_attribute")
        ELSE IF ~Truthy(actual_class_name)
        THEN Error(g, "Error: Class " \o target_class \o " not found", "remove_attribute")
        ELSE LET class_info == ClassOf(g.code_analysis, actual_class_name)
                 found == FirstNamed(class_info.attributes, LAMBDA n : lower(n) = lower(attribute_name))
             IN  IF found = 0
                 THEN Error(g, "Error: Attribute " \o attribute_name \o " not found in class "
                               \o actual_class_name, "remove_attribute")
                 ELSE LET attr_line == class_info.attributes[found].location.line_start - 1
                          deleted == ListDelete(g.original_code_lines, attr_line, attr_line + 1)
                          init == InitIndex(class_info)
                          init_method == class_info.methods[init]
                          has_param == \E k \in 1..Len(init_method.arguments) :
                                           lower(init_method.arguments[k]) = lower(attribute_name)
                          init_line == init_method.location.line_start - 1
                      IN  IF attr_line >= Len(g.original_code_lines)
                          THEN Raise(g, "IndexError", "remove_attribute")
                          ELSE IF init = 0 \/ ~has_param THEN Return(g, deleted, "remove_attribute")
                          ELSE IF init_line >= Len(deleted) THEN Raise(g, "IndexError", "remove_attribute")
                          ELSE Return(g, ListSet(deleted, init_line,
                                                 InitDefWithoutParam(deleted[init_line + 1], attribute_name)),
                                      "remove_attribute")

\* the character loop of rename_class: line with every occurrence of old that has
\* no alphanumeric character directly before or after it replaced by new
RECURSIVE ReplaceWholeWord(_, _, _, _)
ReplaceWholeWord(line, i, old, new) ==
    IF i >= Len(line) THEN ""
    ELSE IF /\ PySlice(line, i, i + Len(old)) = old
            /\ (i = 0 \/ ~isalnum(At(line, i - 1)))
            /\ (i + Len(old) = Len(line) \/ ~isalnum(At(line, i + Len(old))))
         THEN new \o ReplaceWholeWord(line, i + Len(old), old, new)
         ELSE At(line, i) \o ReplaceWholeWord(line, i + 1, old, new)

\* the definition line with the first occurrence of name at or after the keyword replaced
RenameInDef(def_line, keyword, name, new_name) ==
    LET kw_start == find(def_line, keyword, 0)
        name_start == find(def_line, name, kw_start)
        name_end == name_start + Len(name)
    IN  PyTo(def_line, name_start) \o new_name \o PyFrom(def_line, name_end)

rename_class(g) ==
    LET intent == g.intent
        old_name == GetOr(intent, "old_name", Get(intent, "target_class"))
        new_name == GetOr(intent, "new_name", Get(intent, "new_class_name"))
        first == IF Truthy(old_name) THEN LookupClassCI(g.code_analysis, old_name) ELSE None
        actual_class_name ==
            IF ~Truthy(first) /\ "target_class" \in DOMAIN intent /\ intent["target_class"] # old_name
            THEN LookupClassCI(g.code_analysis, intent["target_class"])
            ELSE first
    IN  IF Get(intent, "action") # "rename_class"
        THEN Error(g, "Error: Intent is not rename_class", "rename_class")
        ELSE IF ~Truthy(old_name) \/ ~Truthy(new_name)
        THEN Error(g, "Error: Missing old or new class name", "rename_class")
        ELSE IF ~Truthy(first) /\ "target_class" \in DOMAIN intent /\ intent["target_class"] = None
        THEN Raise(g, "AttributeError", "rename_class")
        ELSE IF ~Truthy(actual_class_name)
        THEN Error(g, "Error: Class " \o old_name \o " not found", "rename_class")
        ELSE LET class_info == ClassOf(g.code_analysis, actual_class_name)
                 class_line == class_info.location.line_start - 1
                 lines == g.original_code_lines
                 class_def == lines[class_line + 1]
                 new_def == IF find(class_def, "class", 0) >= 0
                            THEN RenameInDef(class_def, "class", actual_class_name, new_name)
                            ELSE class_def
             IN  Return(g, [k \in 1..Len(lines) |->
                              IF k = class_line + 1 THEN new_def
                              ELSE IF Contains(lines[k], actual_class_name)
                              THEN ReplaceWholeWord(lines[k], 0, actual_class_name, new_name)
                              ELSE lines[k]],
                        "rename_class")

\* the renaming shared by the two branches of rename_method
RenameDefAt(g, entry, old_name, new_name) ==
    LET line_no == entry.location.line_start - 1
        def_line == g.original_code_lines[line_no + 1]
    IN  IF find(def_line, "def", 0) >= 0
        THEN (IF new_name = None THEN Raise(g, "TypeError", "rename_method")
              ELSE Return(g, ListSet(g.original_code_lines, line_no,
                                     RenameInDef(def_line, "def", old_name, new_name)), "rename_method"))
        ELSE Error(g, "Error: Could not rename method or function", "rename_method")

rename_method(g) ==
    LET intent == g.intent
        target_class == Get(intent, "target_class")
        old_name == Get(intent, "old_name")
        new_name == Get(intent, "new_name")
    IN  IF Get(intent, "action") # "rename_method"
        THEN Error(g, "Error: Intent is not rename_method", "rename_method")
        ELSE IF Truthy(target_class) /\ ~InClasses(g.code_analysis, target_class)
        THEN Error(g, "Error: Class " \o target_class \o " not found", "rename_method")
        ELSE IF Truthy(target_class)
        THEN LET class_info == ClassOf(g.code_analysis, target_class)
                 found == FirstNamed(class_info.methods, LAMBDA n : n = old_name)
             IN  IF found = 0
                 THEN Error(g, "Error: Method " \o Str(old_name) \o " not found in class " \o target_class,
                            "rename_method")
                 ELSE RenameDefAt(g, class_info.methods[found], old_name, new_name)
        ELSE LET found == FirstNamed(Functions(g.code_analysis), LAMBDA n : n = old_name)
             IN  IF found = 0
                 THEN Error(g, "Error: Function " \o Str(old_name) \o " not found", "rename_method")
                 ELSE RenameDefAt(g, Functions(g.code_analysis)[found], old_name, new_name)

\* '\n'.join([f"{prefix}{line}" for line in body.split('\n')])
PrefixLines(prefix, body) ==
    LET body_lines == split(body, "\n")
    IN  join("\n", [i \in 1..Len(body_lines) |-> prefix \o body_lines[i]])

add_function(g) ==
    LET intent == g.intent
        function_name == Get(intent, "function_name")
        parameters == GetOr(intent, "parameters", <<>>)
        function_body == GetOr(intent, "function_body", "pass")
        function_body_formatted == IF function_body = "pass" THEN "    pass"
                                   ELSE PrefixLines("    ", function_body)
        new_function == "def " \o Str(function_name) \o "(" \o join(", ", parameters) \o "):\n"
                        \o function_body_formatted
        insertion_line == MaxEndPlusOne(MaxEndPlusOne(Len(g.original_code_lines), Classes(g.code_analysis)),
                                        Functions(g.code_analysis))
    IN  IF Get(intent, "action") # "add_function"
        THEN Error(g, "Error: Intent is not add_function", "add_function")
        ELSE Return(g, ListInsert(g.original_code_lines, insertion_line, "\n\n" \o new_function),
                    "add_function")

remove_function(g) ==
    LET intent == g.intent
        function_name == Get(intent, "function_name")
        found == FirstNamed(Functions(g.code_analysis), LAMBDA n : n = function_name)
    IN  IF Get(intent, "action") # "remove_function"
        THEN Error(g, "Error: Intent is not remove_function", "remove_function")
        ELSE IF found = 0
        THEN Error(g, "Error: Function " \o Str(function_name) \o " not found", "remove_function")
        ELSE LET function_to_remove == Functions(g.code_analysis)[found]
                 start_line == function_to_remove.location.line_start - 1
                 end_line == function_to_remove.location.line_end
             IN  Return(g, ListDelete(g.original_code_lines, start_line, end_line), "remove_function")

\* the target lookup shared by add_loop and add_conditional: <<status, entry>> with
\* status "class" (the class error), "none" (no target) or "found"
FindTarget(g) ==
    LET intent == g.intent
        target_type == Get(intent, "target_type")
        target_name == Get(intent, "target_name")
        target_class == Get(intent, "target_class")
    IN  IF target_type = "method"
        THEN (IF ~Truthy(target_class) \/ ~InClasses(g.code_analysis, target_class)
              THEN <<"class", 0>>
              ELSE LET ms == ClassOf(g.code_analysis, target_class).methods
                       found == FirstNamed(ms, LAMBDA n : n = target_name)
                   IN  IF found = 0 THEN <<"none", 0>> ELSE <<"found", ms[found]>>)
        ELSE LET fs == Functions(g.code_analysis)
                 found == FirstNamed(fs, LAMBDA n : n = target_name)
             IN  IF found = 0 THEN <<"none", 0>> ELSE <<"found", fs[found]>>

\* what the two operations answer when the lookup found no target
TargetMissing(g, op) ==
    LET target_type == Get(g.intent, "target_type")
    IN  IF FindTarget(g)[1] = "class"
        THEN Error(g, "Error: Class " \o Str(Get(g.intent, "target_class")) \o " not found", op)
        ELSE IF target_type = None THEN Raise(g, "AttributeError", op)
        ELSE Error(g, "Error: " \o capitalize(target_type) \o " "
                      \o Str(Get(g.intent, "target_name")) \o " not found", op)

add_loop(g) ==
    LET intent == g.intent
        loop_type == GetOr(intent, "loop_type", "for")
        iterator == GetOr(intent, "iterator", "i")
        iterable == GetOr(intent, "iterable", "range(10)")
        condition == GetOr(intent, "condition", "True")
        loop_body == GetOr(intent, "loop_body", "pass")
        target == FindTarget(g)
    IN  IF Get(intent, "action") # "add_loop" THEN Error(g, "Error: Intent is not add_loop", "add_loop")
        ELSE IF target[1] # "found" THEN TargetMissing(g, "add_loop")
        ELSE LET insertion_line == target[2].location.line_end - 1
                 indentation == get_indentation(g.original_code_lines[insertion_line + 1])
                 loop_code == IF loop_type = "for"
                              THEN indentation \o "for " \o iterator \o " in " \o iterable \o ":"
                              ELSE indentation \o "while " \o condition \o ":"
                 loop_body_formatted == IF loop_body = "pass" THEN indentation \o "    pass"
                                        ELSE PrefixLines(indentation \o "    ", loop_body)
                 full_loop == loop_code \o "\n" \o loop_body_formatted
             IN  Return(g, ListInsert(g.original_code_lines, insertion_line, full_loop), "add_loop")

\* the lines of one branch body
BodyLines(prefix, body) ==
    IF body = "pass" THEN <<prefix \o "pass">>
    ELSE LET body_lines == split(body, "\n")
         IN  [i \in 1..Len(body_lines) |-> prefix \o body_lines[i]]

add_conditional(g) ==
    LET intent == g.intent
        conditional_type == GetOr(intent, "conditional_type", "if")
        conditions == GetOr(intent, "conditions", <<"True">>)
        bodies == GetOr(intent, "bodies", <<"pass">>)
        match_subject == GetOr(intent, "match_subject", "")
        cases == GetOr(intent, "cases", <<>>)
        target == FindTarget(g)
    IN  IF Get(intent, "action") # "add_conditional"
        THEN Error(g, "Error: Intent is not add_conditional", "add_conditional")
        ELSE IF target[1] # "found" THEN TargetMissing(g, "add_conditional")
        ELSE LET insertion_line == target[2].location.line_end - 1
                 indentation == get_indentation(g.original_code_lines[insertion_line + 1])
                 match_code ==
                     <<indentation \o "match " \o match_subject \o ":">>
                     \o FlattenSeq([i \in 1..Len(cases) |->
                            <<indentation \o "    case " \o GetOr(cases[i], "pattern", "_") \o ":">>
                            \o BodyLines(indentation \o "        ", GetOr(cases[i], "body", "pass"))])
                 n == IF Len(conditions) < Len(bodies) THEN Len(conditions) ELSE Len(bodies)
                 if_code ==
                     FlattenSeq([i \in 1..n |->
                         << IF i = 1 THEN indentation \o "if " \o conditions[i] \o ":"
                            ELSE IF i = Len(conditions) /\ conditional_type \in {"if-else", "if-elif-else"}
                            THEN indentation \o "else:"
                            ELSE indentation \o "elif " \o conditions[i] \o ":" >>
                         \o BodyLines(indentation \o "    ", bodies[i])])
                 full_conditional == join("\n", IF conditional_type = "match" THEN match_code ELSE if_code)
             IN  Return(g, ListInsert(g.original_code_lines, insertion_line, full_conditional),
                        "add_conditional")

\* the class definition line with base added to its inheritance list; None when the
\* line has neither parentheses nor a colon
WithBase(class_def, base) ==
    LET open_paren == find(class_def, "(", 0)
        close_paren == find(class_def, ")", 0)
        bases == strip(PySlice(class_def, open_paren + 1, close_paren))
        class_name_end == find(class_def, ":", 0)
    IN  IF open_paren >= 0 /\ close_paren >= 0
        THEN PyTo(class_def, open_paren + 1)
             \o (IF bases # "" THEN bases \o ", " \o Str(base) ELSE base)
             \o PyFrom(class_def, close_paren)
        ELSE IF class_name_end >= 0
        THEN PyTo(class_def, class_name_end) \o "(" \o Str(base) \o ")" \o PyFrom(class_def, class_name_end)
        ELSE None

\* whether WithBase concatenates the base itself (not its formatted text)
BaseConcatenated(class_def) ==
    LET open_paren == find(class_def, "(", 0)
        close_paren == find(class_def, ")", 0)
    IN  open_paren >= 0 /\ close_paren >= 0 /\ strip(PySlice(class_def, open_paren + 1, close_paren)) = ""

\* the method stub implement_interface generates for one entry of intent['methods']
InterfaceStub(indentation, method) ==
    LET method_name == Get(method, "name")
        parameters == GetOr(method, "parameters", <<>>)
        body == GetOr(method, "body", "pass")
        body_formatted == IF body = "pass" THEN indentation \o "    pass"
                          ELSE PrefixLines(indentation \o "    ", body)
    IN  indentation \o "def " \o Str(method_name) \o "(" \o SelfParams(parameters) \o "):\n" \o body_formatted

\* the insertion loop as it would run if the insertion point stayed where it was
InsertRun_stuck(lines, insertion_line, stubs) ==
    SubSeq(lines, 1, insertion_line)
    \o [i \in 1..Len(stubs) |-> stubs[Len(stubs) + 1 - i]]
    \o SubSeq(lines, insertion_line + 1, Len(lines))

\* the insertion loop: stubs[i] inserted at insertion_line + i - 1, one after the other
RECURSIVE InsertRun(_, _, _)
InsertRun(lines, insertion_line, stubs) ==
    IF stubs = <<>> THEN lines
    ELSE InsertRun(ListInsert(lines, insertion_line, Head(stubs)), insertion_line + 1, Tail(stubs))

implement_interface(g) ==
    LET intent == g.intent
        target_class == Get(intent, "target_class")
        interface_class == Get(intent, "interface_class")
        methods_to_implement == GetOr(intent, "methods", <<>>)
    IN  IF Get(intent, "action") # "implement_interface"
        THEN Error(g, "Error: Intent is not implement_interface", "implement_interface")
        ELSE IF ~InClasses(g.code_analysis, target_class)
        THEN Error(g, "Error: Class " \o Str(target_class) \o " not found", "implement_interface")
        ELSE LET class_info == ClassOf(g.code_analysis, target_class)
                 insertion_line == class_info.location.line_end
                 indentation == get_class_indentation(g, target_class)
                 stubs == [i \in 1..Len(methods_to_implement) |->
                             InterfaceStub(indentation, methods_to_implement[i])]
                 modified_code == InsertRun(g.original_code_lines, insertion_line, stubs)
                 class_line == class_info.location.line_start - 1
                 class_def == modified_code[class_line + 1]
             IN  IF interface_class \in SeqToSet(class_info.bases) THEN Return(g, modified_code, "implement_interface")
                 ELSE IF interface_class = None /\ BaseConcatenated(class_def)
                 THEN Raise(g, "TypeError", "implement_interface")
                 ELSE IF WithBase(class_def, interface_class) = None
                 THEN Return(g, modified_code, "implement_interface")
                 ELSE Return(g, ListSet(modified_code, class_line, WithBase(class_def, interface_class)),
                             "implement_interface")

\* the override stub apply_polymorphism generates for one parent method
OverrideStub(indentation, parent_class, method_name, params) ==
    indentation \o "def " \o method_name \o "(" \o join(", ", params) \o "):\n"
    \o indentation \o "    # Override of " \o parent_class \o "." \o method_name \o "\n"
    \o indentation \o "    # Call parent method if needed\n"
    \o indentation \o "    # super()." \o method_name \o "("
    \o join(", ", SelectSeq(params, LAMBDA q : q # "self")) \o ")\n"
    \o indentation \o "    pass"

apply_polymorphism(g) ==
    LET intent == g.intent
        target_class == Get(intent, "target_class")
        parent_class == Get(intent, "parent_class")
        methods_to_override == GetOr(intent, "methods", <<>>)
    IN  IF Get(intent, "action") # "apply_polymorphism"
        THEN Error(g, "Error: Intent is not apply_polymorphism", "apply_polymorphism")
        ELSE IF ~InClasses(g.code_analysis, target_class)
        THEN Error(g, "Error: Class " \o Str(target_class) \o " not found", "apply_polymorphism")
        ELSE IF ~InClasses(g.code_analysis, parent_class)
        THEN Error(g, "Error: Parent class " \o Str(parent_class) \o " not found", "apply_polymorphism")
        ELSE LET class_info == ClassOf(g.code_analysis, target_class)
                 class_line == class_info.location.line_start - 1
                 class_def == g.original_code_lines[class_line + 1]
                 inherits == parent_class \in SeqToSet(class_info.bases)
                 modified_lines == IF inherits THEN g.original_code_lines
                                   ELSE ListSet(g.original_code_lines, class_line, WithBase(class_def, parent_class))
                 parent_info == ClassOf(g.code_analysis, parent_class)
                 \* {method['name']: method ...}: the last method of a name is the one kept
                 ParentMethod(name) ==
                     parent_info.methods[Max({ k \in 1..Len(parent_info.methods) :
                                                 parent_info.methods[k].name = name })]
                 InParent(name) == \E k \in 1..Len(parent_info.methods) : parent_info.methods[k].name = name
                 InChild(name) == \E k \in 1..Len(class_info.methods) : class_info.methods[k].name = name
                 insertion_line == class_info.location.line_end
                 indentation == get_class_indentation(g, target_class)
                 wanted == SelectSeq(methods_to_override, LAMBDA m : InParent(m) /\ ~InChild(m))
                 stubs == [i \in 1..Len(wanted) |->
                             OverrideStub(indentation, parent_class, wanted[i], ParentMethod(wanted[i]).arguments)]
             IN  IF ~inherits /\ WithBase(class_def, parent_class) = None
                 THEN Error(g, "Error: Invalid class definition format", "apply_polymorphism")
                 ELSE Return(g, InsertRun(modified_lines, insertion_line, stubs), "apply_polymorphism")

\* location with both line bounds one greater
ShiftBoth(location) ==
    [location EXCEPT !.line_start = @ + 1, !.line_end = @ + 1]

\* location with its first line one greater
ShiftStart(location) ==
    [location EXCEPT !.line_start = @ + 1]

\* the "Update line numbers" loop of add_abstract_method over one class entry
ShiftClassInfo(info) ==
    [info EXCEPT !.location = ShiftBoth(@),
                 !.methods = [k \in 1..Len(@) |-> [@[k] EXCEPT !.location = ShiftBoth(@)]],
                 !.attributes = [k \in 1..Len(@) |-> [@[k] EXCEPT !.location = ShiftStart(@)]]]

\* the inventory after the loop has run over self.code_analysis['classes']
ShiftAnalysis(analysis) ==
    [analysis EXCEPT !.classes = [k \in 1..Len(@) |-> ShiftClassInfo(@[k])]]

add_abstract_method(g) ==
    LET intent == g.intent
        target_class == Get(intent, "target_class")
        method_name == Get(intent, "method_name")
        parameters == GetOr(intent, "parameters", <<>>)
        lines == g.original_code_lines
        abc_import_found == \E k \in 1..Len(lines) :
                               Contains(lines[k], "import abc") \/ Contains(lines[k], "from abc import")
        \* the object after the import line was inserted: its inventory is shifted in place
        g2 == IF abc_import_found THEN g
              ELSE [g EXCEPT !.code_analysis = ShiftAnalysis(@)]
        modified0 == IF abc_import_found THEN lines
                     ELSE ListInsert(lines, 0, "from abc import ABC, abstractmethod")
    IN  IF Get(intent, "action") # "add_abstract_method"
        THEN Error(g, "Error: Intent is not add_abstract_method", "add_abstract_method")
        ELSE IF ~InClasses(g.code_analysis, target_class)
        THEN Error(g, "Error: Class " \o Str(target_class) \o " not found", "add_abstract_method")
        ELSE LET class_info == ClassOf(g2.code_analysis, target_class)
                 class_line == class_info.location.line_start - 1
                 class_def == modified0[class_line + 1]
                 needs_abc == ~Contains(class_def, "ABC")
                 modified1 == IF needs_abc THEN ListSet(modified0, class_line, WithBase(class_def, "ABC"))
                              ELSE modified0
                 indentation == get_class_indentation(g2, target_class)
                 method_code == indentation \o "@abstractmethod\n"
                                \o indentation \o "def " \o Str(method_name) \o "(" \o SelfParams(parameters) \o "):\n"
                                \o indentation \o "    pass"
                 insertion_line == class_info.location.line_end
             IN  IF needs_abc /\ WithBase(class_def, "ABC") = None
                 THEN Error(g2, "Error: Invalid class definition format", "add_abstract_method")
                 ELSE Return(g2, ListInsert(modified1, insertion_line, method_code), "add_abstract_method")

\* the actions of the dispatch table, in the order of its if/elif chain
ActionTable == <<"add_method", "remove_method", "add_class", "remove_class", "add_attribute",
                 "remove_attribute", "rename_class", "rename_method", "add_function",
                 "remove_function", "add_loop", "add_conditional", "implement_interface",
                 "apply_polymorphism", "add_abstract_method">>

\* the dispatcher as it would be with its chain cut after the class actions
generate_modified_code_cut(g) ==
    LET action == Get(g.intent, "action")
    IN  IF action = "add_method" THEN add_method(g)
        ELSE IF action = "remove_method" THEN remove_method(g)
        ELSE IF action = "add_class" THEN add_class(g)
        ELSE IF action = "remove_class" THEN remove_class(g)
        ELSE Error(g, "Error: Unsupported action " \o Str(action), "generate_modified_code")

\* CodeGenerator.generate_modified_code
generate_modified_code(g) ==
    LET action == Get(g.intent, "action")
    IN  IF action = "add_method" THEN add_method(g)
        ELSE IF action = "remove_method" THEN remove_method(g)
        ELSE IF action = "add_class" THEN add_class(g)
        ELSE IF action = "remove_class" THEN remove_class(g)
        ELSE IF action = "add_attribute" THEN add_attribute(g)
        ELSE IF action = "remove_attribute" THEN remove_attribute(g)
        ELSE IF action = "rename_class" THEN rename_class(g)
        ELSE IF action = "rename_method" THEN rename_method(g)
        ELSE IF action = "add_function" THEN add_function(g)
        ELSE IF action = "remove_function" THEN remove_function(g)
        ELSE IF action = "add_loop" THEN add_loop(g)
        ELSE IF action = "add_conditional" THEN add_conditional(g)
        ELSE IF action = "implement_interface" THEN implement_interface(g)
        ELSE IF action = "apply_polymorphism" THEN apply_polymorphism(g)
        ELSE IF action = "add_abstract_method" THEN add_abstract_method(g)
        ELSE Error(g, "Error: Unsupported action " \o Str(action), "generate_modified_code")

\* the class-name fields process_command normalizes, in the order it visits them
NormalizedFields == <<"target_class", "old_name", "new_name", "parent_class", "interface_class", "child_class">>

\* one normalization step of process_command: the field takes the name of the first
\* class, in the inventory's order, that equals it when both are lower-cased
NormalizeField(intent, field, analysis) ==
    IF field \notin DOMAIN intent THEN intent
    ELSE LET hit == LookupClassCI(analysis, intent[field])
         IN  IF hit = None THEN intent ELSE [intent EXCEPT ![field] = hit]

RECURSIVE NormalizeFields(_, _, _)
NormalizeFields(intent, fields, analysis) ==
    IF fields = <<>> THEN intent
    ELSE NormalizeFields(NormalizeField(intent, Head(fields), analysis), Tail(fields), analysis)

\* the normalized_intent of process_command
normalized_intent(command_parser_output, code_analyzer_output) ==
    NormalizeFields(command_parser_output, NormalizedFields, code_analyzer_output)

\* whether normalization calls .lower() on None
NormalizeRaises(intent) ==
    \E k \in 1..Len(NormalizedFields) :
        NormalizedFields[k] \in DOMAIN intent /\ intent[NormalizedFields[k]] = None

\* process_command(original_code, command_parser_output, code_analyzer_output)
process_command(original_code, command_parser_output, code_analyzer_output) ==
    IF NormalizeRaises(command_parser_output)
    THEN Raise([original_code_lines |-> original_code, code_analysis |-> code_analyzer_output,
                intent |-> command_parser_output], "AttributeError", "process_command")
    ELSE generate_modified_code(
             [original_code_lines |-> original_code,
              code_analysis |-> code_analyzer_output,
              intent |-> normalized_intent(command_parser_output, code_analyzer_output)])

(***************************************************************************)
(* The command parser.  A regular expression is a sequence of nodes; the   *)
(* matcher tries the alternatives in the order of Python's re (greedy      *)
(* repetition first, backtracking on failure) under re.IGNORECASE, and     *)
(* search returns the leftmost match.                                      *)
(***************************************************************************)
Lit(text) == [t |-> "lit", text |-> text]

\* (?:a|b|...) over sequences of nodes
Alt(alts) == [t |-> "alt", alts |-> alts]

\* (?:...)?
Opt(body) == [t |-> "opt", body |-> body]

\* cls+ ; the capturing form is group 1
Plus(cls) == [t |-> "plus", cls |-> cls, min |-> 1, cap |-> FALSE]

Star(cls) == [t |-> "plus", cls |-> cls, min |-> 0, cap |-> FALSE]

Cap(cls) == [t |-> "plus", cls |-> cls, min |-> 1, cap |-> TRUE]

\* $
EndOfText == [t |-> "end"]

\* literal alternatives (?:a|b)
Words(ws) == Alt([i \in 1..Len(ws) |-> <<Lit(ws[i])>>])

\* the character classes \w, \s and [\w\s,]
InClass(cls, c) ==
    IF cls = "w" THEN IsWordChar(c)
    ELSE IF cls = "s" THEN IsSpace(c)
    ELSE IsWordChar(c) \/ IsSpace(c) \/ c = ","

\* the number of characters of the class that follow position pos
RECURSIVE RunLength(_, _, _)
RunLength(cls, s, pos) ==
    IF pos < Len(s) /\ InClass(cls, At(s, pos)) THEN 1 + RunLength(cls, s, pos + 1) ELSE 0

NoMatch == [ok |-> FALSE, end |-> -1, group |-> None]

\* the first match of the nodes re at position pos, group being what group 1 holds so far
RECURSIVE MatchAt(_, _, _, _)
MatchAt(re, s, pos, group) ==
    IF re = <<>> THEN [ok |-> TRUE, end |-> pos, group |-> group]
    ELSE LET node == Head(re)
             rest == Tail(re)
         IN  IF node.t = "lit"
             THEN (IF lower(PySlice(s, pos, pos + Len(node.text))) = node.text
                   THEN MatchAt(rest, s, pos + Len(node.text), group)
                   ELSE NoMatch)
             ELSE IF node.t = "alt"
             THEN LET tries == [i \in 1..Len(node.alts) |-> MatchAt(node.alts[i] \o rest, s, pos, group)]
                      good == { i \in 1..Len(tries) : tries[i].ok }
                  IN  IF good = {} THEN NoMatch ELSE tries[Min(good)]
             ELSE IF node.t = "opt"
             THEN LET with == MatchAt(node.body \o rest, s, pos, group)
                  IN  IF with.ok THEN with ELSE MatchAt(rest, s, pos, group)
             ELSE IF node.t = "plus"
             THEN LET n == RunLength(node.cls, s, pos)
                      Try(k) == MatchAt(rest, s, pos + k,
                                        IF node.cap THEN PySlice(s, pos, pos + k) ELSE group)
                      good == { k \in node.min..n : Try(k).ok }
                  IN  IF good = {} THEN NoMatch ELSE Try(Max(good))
             ELSE \* "end"
                  IF pos = Len(s) THEN MatchAt(rest, s, pos, group) ELSE NoMatch

\* the match object of the match m that starts at p
Found(p, m) == [ok |-> TRUE, start |-> p, end |-> m.end, group |-> m.group]

\* the match at the least of the positions where the nodes match
Leftmost(re, s, starts) ==
    IF starts = {} THEN [ok |-> FALSE, start |-> -1, end |-> -1, group |-> None]
    ELSE Found(Min(starts), MatchAt(re, s, Min(starts), None))

\* pattern.search(s): the leftmost match, as [ok, start, end, group]
Search(re, s) == Leftmost(re, s, { p \in 0..Len(s) : MatchAt(re, s, p, None).ok })

\* re.split(pattern, s) for a pattern that matches no empty string
RECURSIVE RegexSplit(_, _)
RegexSplit(re, s) ==
    LET m == Search(re, s)
    IN  IF ~m.ok THEN <<s>>
        ELSE <<PyTo(s, m.start)>> \o RegexSplit(re, PyFrom(s, m.end))

\* re.sub(pattern, '', s) for a pattern anchored at the end of s
RegexRemove(re, s) ==
    LET m == Search(re, s)
    IN  IF ~m.ok THEN s ELSE PyTo(s, m.start) \o PyFrom(s, m.end)

\* s.split(): the maximal runs of non-whitespace characters
RECURSIVE SplitWords(_)
SplitWords(s) ==
    LET t == lstrip(s)
        RECURSIVE WordLen(_)
        WordLen(i) == IF i < Len(t) /\ ~IsSpace(At(t, i)) THEN WordLen(i + 1) ELSE i
    IN  IF t = "" THEN <<>>
        ELSE <<PyTo(t, WordLen(0))>> \o SplitWords(PyFrom(t, WordLen(0)))

W == Cap("w")

S1 == Plus("s")

\* the group of the match m where it passes the stop-word filter
Passing(m, stop, otherwise) ==
    IF m.ok /\ lower(m.group) \notin stop THEN m.group ELSE otherwise

\* the group of the first pattern of a priority list that matches and passes its
\* stop-word filter; None when none does
RECURSIVE FirstGroup(_, _)
FirstGroup(tries, s) ==
    IF tries = <<>> THEN None
    ELSE Passing(Search(Head(tries).re, s), Head(tries).stop, FirstGroup(Tail(tries), s))

Try(re, stop) == [re |-> re, stop |-> stop]

\* self.action_patterns, in the dict's order
action_patterns ==
    << [action |-> "add", keywords |-> <<"add", "create", "implement", "define", "insert", "make">>],
       [action |-> "remove", keywords |-> <<"remove", "delete", "eliminate", "get rid of">>],
       [action |-> "modify", keywords |-> <<"modify", "change", "update", "alter">>],
       [action |-> "rename", keywords |-> <<"rename", "change name", "call", "name">>],
       [action |-> "get", keywords |-> <<"get", "retrieve", "find", "show", "display">>] >>

AnyIn(words, command) == \E w \in words : Contains(command, w)

_determine_base_action(command) ==
    LET tokens == SeqToSet(SplitWords(command))
        hits == { i \in 1..Len(action_patterns) :
                    \E k \in 1..Len(action_patterns[i].keywords) : action_patterns[i].keywords[k] \in tokens }
    IN  IF hits = {} THEN None
        ELSE LET action == action_patterns[Min(hits)].action
             IN  IF action = "modify" /\ Contains(command, "to") /\ AnyIn({"rename", "name"}, command)
                 THEN "rename"
                 ELSE action

_determine_target_type(command) ==
    IF AnyIn({"for loop", "while loop", " loop"}, command) /\ Contains(command, "to the") THEN "loop"
    ELSE IF AnyIn({"if/else", "if-else", "switch/case", "conditional", "statement"}, command)
            /\ Contains(command, "to the") THEN "conditional"
    ELSE IF AnyIn({"polymorphism", "override", "overload"}, command) THEN "polymorphism"
    ELSE IF AnyIn({"inherit", "extends", "subclass"}, command) THEN "inheritance"
    ELSE IF AnyIn({"standalone function", "function outside", "global function"}, command) THEN "function"
    ELSE IF Contains(command, "method")
            /\ ~AnyIn({"to the", "loop to", "conditional to", "statement to"}, command) THEN "method"
    ELSE IF Contains(command, "function")
            /\ ~AnyIn({"to the", "loop to", "conditional to", "statement to", "class"}, command) THEN "function"
    ELSE IF AnyIn({"attribute", "property", "field"}, command) THEN "attribute"
    ELSE IF Contains(command, "class") THEN "class"
    ELSE None

MethodOrFunction == Words(<<"method", "function">>)

CalledOrNamed == Words(<<"called", "named">>)

_extract_method_or_function_name(command) ==
    FirstGroup(<< Try(<<MethodOrFunction, S1, CalledOrNamed, S1, W>>, {}),
                  Try(<<Lit("the"), S1, W, S1, MethodOrFunction>>, {}),
                  Try(<<Lit("a"), S1, W, S1, MethodOrFunction>>, {}),
                  Try(<<MethodOrFunction, S1, Opt(<<Words(<<"named", "called">>)>>), Star("s"), W>>,
                      {"called", "named"}) >>, command)

_extract_class_name(command) ==
    FirstGroup(<< Try(<<W, S1, Lit("class")>>, {"a", "the", "new", "any"}),
                  Try(<<Lit("class"), S1, CalledOrNamed, S1, W>>, {}),
                  Try(<<Words(<<"in", "to", "from">>), S1, Opt(<<Lit("the"), S1>>), W, S1, Lit("class")>>, {}),
                  Try(<<Opt(<<Lit("a"), S1, Opt(<<Lit("new"), S1>>)>>), Lit("class"), S1, W,
                        Alt(<< <<Plus("s")>>, <<EndOfText>> >>)>>, {}) >>, command)

\* re.split(r',|\s+and\s+', text)
ListSeparator == <<Alt(<< <<Lit(",")>>, <<S1, Lit("and"), S1>> >>)>>

\* the elements of a list, each stripped, that are non-empty and pass Keep
StripAndKeep(raw, Keep(_)) ==
    LET stripped == [i \in 1..Len(raw) |-> strip(raw[i])]
    IN  SelectIdx(stripped, LAMBDA i : stripped[i] # "" /\ Keep(stripped[i]))

\* the parameter list, or <<>> where the method returns None or an empty list
_extract_parameters(command) ==
    LET m == Search(<<Lit("with"), S1, Lit("parameter"), Opt(<<Lit("s")>>), S1, Cap("wsc"),
                      Opt(<<S1, Words(<<"in", "to">>)>>)>>, command)
        kept == StripAndKeep(RegexSplit(ListSeparator, m.group), LAMBDA q : lower(q) \notin {"in", "to", "from"})
    IN  IF ~m.ok THEN <<>>
        ELSE [i \in 1..Len(kept) |->
                RegexRemove(<<S1, Words(<<"to", "in">>), S1, Plus("w"), S1, Lit("class"), EndOfText>>, kept[i])]

\* the attribute list, or <<>> where the method returns None or an empty list
_extract_attributes(command) ==
    LET m1 == Search(<<Opt(<<Lit("a"), Opt(<<Lit("n")>>), S1>>), Lit("attribute"), S1, W>>, command)
        m2 == Search(<<Lit("attribute"), Opt(<<Lit("s")>>), S1, Cap("wsc"),
                       Opt(<<S1, Words(<<"to", "from">>)>>)>>, command)
        m3 == Search(<<Lit("attribute"), S1, CalledOrNamed, S1, W>>, command)
        m4 == Search(<<Opt(<<Lit("the"), S1>>), W, S1, Lit("attribute")>>, command)
        m5 == Search(<<Lit("add"), S1, W, S1, Lit("to")>>, command)
    IN  IF m1.ok /\ lower(m1.group) \notin {"to", "from", "in", "named", "called"} THEN <<m1.group>>
        ELSE IF m2.ok
        THEN StripAndKeep(RegexSplit(ListSeparator, m2.group),
                          LAMBDA q : ~AnyIn({"class", "to", "from"}, lower(q)))
        ELSE IF m3.ok THEN <<m3.group>>
        ELSE IF m4.ok /\ lower(m4.group) \notin {"an", "a", "the", "new", "add"} THEN <<m4.group>>
        ELSE IF m5.ok /\ lower(m5.group) \notin {"an", "a", "the", "attribute"} THEN <<m5.group>>
        ELSE <<>>

OptThe == Opt(<<Lit("the"), S1>>)

_extract_class_for_attribute(command) ==
    FirstGroup(<< Try(<<Words(<<"to", "from">>), S1, OptThe, W, S1, Lit("class")>>, {}) >>, command)

_extract_class_for_method(command) ==
    FirstGroup(<< Try(<<Lit("in"), S1, OptThe, W, S1, Lit("class")>>, {}) >>, command)

_extract_old_class_name(command) ==
    FirstGroup(<< Try(<<Lit("rename"), S1, OptThe, W, S1, Lit("class")>>, {"named", "called", "the"}),
                  Try(<<Lit("rename"), S1, OptThe, Lit("class"), S1, Words(<<"named", "called">>), S1, W>>, {}),
                  Try(<<Lit("class"), S1, W>>, {"named", "called", "the"}) >>, command)

_extract_new_class_name(command) ==
    FirstGroup(<< Try(<<Lit("to"), S1, W, Opt(<<S1, Lit("class")>>)>>, {}),
                  Try(<<Lit("as"), S1, W, Opt(<<S1, Lit("class")>>)>>, {}) >>, command)

_extract_old_method_name(command) ==
    FirstGroup(<< Try(<<Lit("rename"), S1, OptThe, W, S1, Lit("method")>>, {}),
                  Try(<<Lit("rename"), S1, OptThe, Lit("method"), S1, Opt(<<CalledOrNamed>>), Star("s"), W>>, {}),
                  Try(<<Lit("method"), S1, CalledOrNamed, S1, W>>, {}) >>, command)

_extract_new_method_name(command) ==
    FirstGroup(<< Try(<<Lit("to"), S1, W, Opt(<<S1, Lit("in")>>)>>, {}) >>, command)

_extract_loop_type(command) ==
    IF "for" \in SeqToSet(SplitWords(command)) THEN "for"
    ELSE IF "while" \in SeqToSet(SplitWords(command)) THEN "while"
    ELSE "for"

_extract_conditional_type(command) ==
    IF Contains(command, "switch") \/ Contains(command, "case") THEN "switch" ELSE "if_else"

_extract_container_name(command) ==
    FirstGroup(<< Try(<<Lit("to"), S1, OptThe, W, S1, MethodOrFunction>>, {}),
                  Try(<<OptThe, W, S1, MethodOrFunction>>,
                      {"a", "the", "if/else", "for", "while", "switch/case", "add"}) >>, command)

_extract_child_class(command) ==
    FirstGroup(<< Try(<<Lit("make"), S1, OptThe, W, S1, Lit("class"), S1, Lit("inherit")>>, {}) >>, command)

_extract_parent_class(command) ==
    FirstGroup(<< Try(<<Lit("from"), S1, OptThe, W, S1, Lit("class")>>, {}) >>, command)

_extract_method_to_override(command) ==
    FirstGroup(<< Try(<<Lit("override"), S1, OptThe, W, S1, Lit("method")>>, {}),
                  Try(<<OptThe, W, S1, Lit("method")>>, {}) >>, command)

\* intent[key] = value
Put(intent, key, value) ==
    [k \in DOMAIN intent \cup {key} |-> IF k = key THEN value ELSE intent[k]]

\* the assignment guarded by "if value:" for an optional string
PutIf(intent, key, value) == IF Truthy(value) THEN Put(intent, key, value) ELSE intent

\* the assignment guarded by "if value:" for a list
PutList(intent, key, value) == IF value # <<>> THEN Put(intent, key, value) ELSE intent

\* the composed action: base and target, the base alone, or "unknown"
ComposedAction(base_action, target_type) ==
    IF Truthy(base_action) /\ Truthy(target_type) THEN base_action \o "_" \o target_type
    ELSE IF Truthy(base_action) THEN base_action
    ELSE "unknown"

\* the block for add_class
ClassFields(intent, command_text, command) ==
    IF intent.action = "add_class"
    THEN PutList(PutIf(intent, "class_name", _extract_class_name(command_text)),
                 "attributes", _extract_attributes(command))
    ELSE intent

FirstAttribute(intent, attrs) ==
    IF attrs # <<>> THEN Put(intent, "attribute_name", attrs[1]) ELSE intent

\* the block for add_attribute
AttributeFields(intent, command_text) ==
    IF intent.action = "add_attribute"
    THEN PutIf(FirstAttribute(intent, _extract_attributes(command_text)),
               "target_class", _extract_class_for_attribute(command_text))
    ELSE intent

\* a function in a class context is a method
FunctionInClass(intent, command) ==
    IF Contains(command, "function") /\ Contains(command, "in") /\ Contains(command, "class")
       /\ intent.action = "add_function"
    THEN Put(intent, "action", "add_method")
    ELSE intent

AddParameters(intent, base_action, command) ==
    IF base_action = "add" THEN PutList(intent, "parameters", _extract_parameters(command)) ELSE intent

\* the fields extracted by the kind of the action
ActionFields(intent, base_action, command) ==
    IF Contains(intent.action, "method") \/ Contains(intent.action, "function")
    THEN PutIf(AddParameters(PutIf(intent, "method_name", _extract_method_or_function_name(command)),
                             base_action, command),
               "target_class", _extract_class_name(command))
    ELSE IF Contains(intent.action, "class")
    THEN PutIf(intent, "target_class", _extract_class_name(command))
    ELSE IF Contains(intent.action, "attribute") \/ Contains(intent.action, "property")
    THEN PutIf(PutList(intent, "attributes", _extract_attributes(command)),
               "target_class", _extract_class_for_attribute(command))
    ELSE intent

\* the rename block
RenameFields(intent, base_action, target_type, command) ==
    IF base_action = "rename" /\ target_type = "class"
    THEN PutIf(PutIf(intent, "old_name", _extract_old_class_name(command)),
               "new_name", _extract_new_class_name(command))
    ELSE IF base_action = "rename" /\ target_type = "method"
    THEN PutIf(PutIf(PutIf(intent, "method_name", _extract_old_method_name(command)),
                     "new_method_name", _extract_new_method_name(command)),
               "target_class", _extract_class_for_method(command))
    ELSE intent

\* container_name and container_type, set by the loop and the conditional blocks
ContainerFields(intent, container_name, command) ==
    IF Truthy(container_name)
    THEN Put(Put(intent, "container_name", container_name), "container_type",
             IF Contains(command, "method") THEN "method" ELSE "function")
    ELSE intent

LoopFields(intent, command) ==
    IF Contains(command, "loop") \/ intent.action = "add_loop"
    THEN Put(ContainerFields(Put(intent, "loop_type", _extract_loop_type(command)),
                             _extract_container_name(command), command),
             "action", "add_loop")
    ELSE intent

ConditionalFields(intent, command) ==
    IF AnyIn({"conditional", "if/else", "switch", "statement"}, command) \/ intent.action = "add_conditional"
    THEN Put(ContainerFields(Put(intent, "conditional_type", _extract_conditional_type(command)),
                             _extract_container_name(command), command),
             "action", "add_conditional")
    ELSE intent

InheritanceFields(intent, command) ==
    IF Contains(intent.action, "inheritance")
    THEN PutIf(PutIf(intent, "child_class", _extract_child_class(command)),
               "parent_class", _extract_parent_class(command))
    ELSE intent

PolymorphismFields(intent, command) ==
    IF Contains(intent.action, "polymorphism") \/ Contains(command, "override")
       \/ Contains(command, "polymorphism")
    THEN Put(PutIf(PutIf(intent, "method_name", _extract_method_to_override(command)),
                   "target_class", _extract_class_name(command)),
             "action", "add_polymorphism")
    ELSE intent

\* the cascade of parse_command once the base action and the target type are known
Cascade(command_text, command, base_action, target_type) ==
    PolymorphismFields(
        InheritanceFields(
            ConditionalFields(
                LoopFields(
                    RenameFields(
                        ActionFields(
                            FunctionInClass(
                                AttributeFields(
                                    ClassFields([action |-> ComposedAction(base_action, target_type)],
                                                command_text, command),
                                    command_text),
                                command),
                            base_action, command),
                        base_action, target_type, command),
                    command),
                command),
            command),
        command)

LowerCased(command_text, command) ==
    Cascade(command_text, command, _determine_base_action(command), _determine_target_type(command))

parse_command(command_text) == LowerCased(command_text, lower(command_text))

\* the first class of the inventory, in its order, whose lower-cased name is not in skip;
\* None when there is none
FirstClassNotIn(code_analysis, skip) ==
    LET classes == GetOr(code_analysis, "classes", <<>>)
        hits == { i \in 1..Len(classes) : lower(classes[i].name) \notin skip }
    IN  IF hits = {} THEN None ELSE classes[Min(hits)].name

\* the repair of a target_class that is "the"
FixThe(intent, code_analysis) ==
    IF GetOr(intent, "target_class", None) # "the" THEN intent
    ELSE IF "old_name" \in DOMAIN intent THEN Put(intent, "target_class", intent["old_name"])
    ELSE IF "new_class_name" \in DOMAIN intent
    THEN PutIf(intent, "target_class",
               FirstClassNotIn(code_analysis, {"the", lower(intent["new_class_name"])}))
    ELSE intent

\* intent[key] = intent[from] where from is set and key is not
Default(intent, key, from) ==
    IF from \in DOMAIN intent /\ key \notin DOMAIN intent THEN Put(intent, key, intent[from]) ELSE intent

FixRenameClass(intent, code_analysis) ==
    IF GetOr(intent, "action", None) = "rename_class"
    THEN Default(Default(FixThe(intent, code_analysis), "old_name", "target_class"),
                 "new_name", "new_class_name")
    ELSE intent

FixRenameMethod(intent) ==
    IF GetOr(intent, "action", None) = "rename_method"
    THEN Default(Default(intent, "new_name", "new_method_name"), "old_name", "method_name")
    ELSE intent

\* the case-insensitive match of target_class
FixTargetClass(intent, code_analysis) ==
    IF "target_class" \in DOMAIN intent THEN NormalizeField(intent, "target_class", code_analysis)
    ELSE intent

fix_common_intent_issues(intent, code_analysis) ==
    FixTargetClass(FixRenameMethod(FixRenameClass(intent, code_analysis)), code_analysis)

\* str(e) of an exception one of the operations raises
ExceptionText(outcome) ==
    LET exc == outcome.value[1]
    IN  IF exc = "AttributeError"
        THEN (IF outcome.by \in {"add_loop", "add_conditional"}
              THEN "'NoneType' object has no attribute 'capitalize'"
              ELSE "'NoneType' object has no attribute 'lower'")
        ELSE IF exc = "IndexError" THEN "list index out of range"
        ELSE "can only concatenate str (not \"NoneType\") to str"

\* process_command_with_generator of javis.py: the intent is fixed, process_command
\* is tried, then a generator loaded with the fixed intent as it is, and an exception
\* of that second attempt becomes an error string.
\* the except branch: a generator loaded with the fixed intent as it is
Fallback(second) ==
    IF second.kind = "return" THEN second
    ELSE Error(second.gen, "Error: " \o ExceptionText(second), "process_command_with_generator")

TryProcess(first, original_code, fixed_intent) ==
    IF first.kind = "return" THEN first
    ELSE Fallback(generate_modified_code([original_code_lines |-> original_code,
                                          code_analysis |-> first.gen.code_analysis,
                                          intent |-> fixed_intent]))

WithFixed(original_code, fixed_intent, code_analysis) ==
    TryProcess(process_command(original_code, fixed_intent, code_analysis), original_code, fixed_intent)

\* whether fix_common_intent_issues calls .lower() on None: on a new_class_name that is
\* None inside the scan for a class, or on a target_class that is None after the repairs
FixRaises(intent, code_analysis) ==
    LET repaired == FixRenameMethod(FixRenameClass(intent, code_analysis))
    IN  \/ /\ GetOr(intent, "action", None) = "rename_class"
           /\ GetOr(intent, "target_class", None) = "the"
           /\ "old_name" \notin DOMAIN intent
           /\ "new_class_name" \in DOMAIN intent
           /\ intent["new_class_name"] = None
           /\ Classes(code_analysis) # <<>>
        \/ "target_class" \in DOMAIN repaired /\ repaired["target_class"] = None

\* fix_common_intent_issues is called outside the try: what it raises reaches the caller
process_command_with_generator(original_code, command_intent, code_analysis) ==
    IF FixRaises(command_intent, code_analysis)
    THEN Raise([original_code_lines |-> original_code, code_analysis |-> code_analysis,
                intent |-> command_intent], "AttributeError", "fix_common_intent_issues")
    ELSE WithFixed(original_code, fix_common_intent_issues(command_intent, code_analysis),
                   code_analysis)

\* modified_code.startswith("Error:"), for a text held as its lines
IsErrorText(text) == startswith(text[1], "Error:")

(***************************************************************************)
(* The state machine.  A caller holds a source text and its inventory,     *)
(* hands an intent (or, in the session of javis.py, an instruction) to the *)
(* mutator and receives the outcome.                                       *)
(***************************************************************************)
VARIABLES
    original_code,   \* the lines of the source the caller holds
    code_analysis,   \* the inventory the caller holds
    command_text,    \* the instruction last parsed
    command_intent,  \* the intent last handed to the mutator
    modified_code,   \* the outcome of the last call
    pc,              \* "loaded", "parsed", "returned" or "generated"
    edits            \* the earlier edits of this source: what was held and asked

vars == <<original_code, code_analysis, command_text, command_intent, modified_code, pc, edits>>

\* the number of blocks a source is assembled from
MaxBlocks == 2

\* the number of times a result is loaded back as the source
MaxEdits == 1

\* the number of parameters an intent lists
MaxParams == 1

AnimalBlock ==
    << "class Animal:",
       "    def __init__(self, name):",
       "        self.name = name",
       "    def speak(self):",
       "        pass" >>

DogBlock ==
    << "class Dog(Animal):",
       "    def speak(self):",
       "        pass" >>

CatBlock ==
    << "class Cat:",
       "    pass" >>

FeedBlock ==
    << "def feed(animal):",
       "    return animal" >>

UsageBlock ==
    << "AnimalCount = 0",
       "Animal_count = Animal(\"x\")" >>

ImportBlock == << "from abc import ABC, abstractmethod" >>

\* a second class whose name differs from Animal's in case only
LowerBlock ==
    << "class animal:",
       "    pass" >>

Blocks == <<ImportBlock, AnimalBlock, DogBlock, CatBlock, FeedBlock, UsageBlock, LowerBlock>>

\* a class header without a body: ast.parse rejects the text
BrokenSource == << "class Animal:" >>

\* a body that is not indented, and a line that dedents to no enclosing block:
\* ast.parse rejects both
UnindentedSource == << "def feed(animal):", "return animal", "" >>

DedentSource == << "class Cat:", "    pass", "  x = 1", "" >>

\* a class whose constructor has its header and its body on one line
InlineSource == << "class Bird:", "    def __init__(self, name): self.name = name", "" >>

\* a class whose constructor gives its parameter a default value
DefaultSource ==
    << "class Bird:", "    def __init__(self, name=None, age=0):", "        self.name = name", "" >>

\* a class and a method whose names are single letters of the keywords before them
LetterSource == << "class c:", "    def f(self):", "        pass", "" >>

\* the texts assembled from at most MaxBlocks blocks, in the library's order, the texts
\* with the one-line constructor, the default value and the one-letter names, and the
\* texts that do not parse
Sources ==
    { FlattenSeq([k \in 1..Len(Blocks) |-> IF k \in chosen THEN Blocks[k] ELSE <<>>]) \o <<"">> :
        chosen \in { c \in SUBSET (1..Len(Blocks)) : Cardinality(c) <= MaxBlocks } }
    \cup {InlineSource, DefaultSource, LetterSource, BrokenSource, UnindentedSource, DedentSource}

\* the intents of a set, and each of them with the field key set to a value
Optional(intents, key, values) ==
    intents \cup { Put(i, key, v) : i \in intents, v \in values }

ParameterNames == <<"food", "amount", "speed">>

\* the parameter lists of at most MaxParams names
ParameterLists == { SubSeq(ParameterNames, 1, n) : n \in 1..Min({MaxParams, Len(ParameterNames)}) }

ClassNames == {"Animal", "animal", "Dog", "Cat", "Bird"}

MethodNames == {"speak", "eat"}

AttributeNames == {"name", "age"}

Targeted(action, classes) == Optional({[action |-> action]}, "target_class", classes)

\* the intents handed to the mutator, by action
Intents(action) ==
    IF action = "add_method"
    THEN Optional(Optional(Targeted(action, ClassNames), "method_name", MethodNames),
                  "parameters", ParameterLists)
    ELSE IF action = "remove_method"
    THEN Optional(Targeted(action, ClassNames), "method_name", MethodNames \cup {"SPEAK"})
    ELSE IF action = "add_class"
    THEN Optional(Optional(Optional({[action |-> action]}, "class_name", {"Bird", "Animal", "animal"}),
                           "attributes", {<<"name">>}),
                  "methods", {<<[name |-> "fly"]>>})
    ELSE IF action = "remove_class"
    THEN Optional({[action |-> action]}, "class_name", ClassNames)
    ELSE IF action = "add_attribute"
    THEN Optional(Optional(Targeted(action, ClassNames), "attribute_name", AttributeNames),
                  "add_parameter", {FALSE})
    ELSE IF action = "remove_attribute"
    THEN Optional(Targeted(action, ClassNames), "attribute_name", AttributeNames \cup {"NAME"})
    ELSE IF action = "rename_class"
    THEN Optional(Optional(Targeted(action, {"Animal", "animal"}), "old_name", {"Animal", "animal", "Cat", "c"}),
                  "new_name", {"Mammal", "dog", "Animal"})
    ELSE IF action = "rename_method"
    THEN Optional(Optional(Targeted(action, {"Animal", "dog", "Bird", "c"}), "old_name", {"speak", "feed", "eat", "f"}),
                  "new_name", {"talk"})
    ELSE IF action = "add_function"
    THEN Optional(Optional({[action |-> action]}, "function_name", {"feed", "run"}),
                  "parameters", ParameterLists)
    ELSE IF action = "remove_function"
    THEN Optional({[action |-> action]}, "function_name", {"feed", "Feed", "run"})
    ELSE IF action \in {"add_loop", "add_conditional"}
    THEN Optional(Optional(Optional(Targeted(action, {"Animal", "dog"}), "target_name", {"speak", "feed"}),
                           "target_type", {"method", "function"}),
                  IF action = "add_loop" THEN "loop_type" ELSE "conditional_type",
                  IF action = "add_loop" THEN {"while"} ELSE {"if_else", "switch"})
    ELSE IF action = "implement_interface"
    THEN Optional(Optional(Targeted(action, {"Animal", "dog", "Bird"}), "interface_class", {"Animal", "Flyer"}),
                  "methods", {<<[name |-> "fly"]>>, <<[name |-> "fly"], [name |-> "land"]>>})
    ELSE IF action = "apply_polymorphism"
    THEN Optional(Optional(Targeted(action, {"Dog", "Cat", "cat", "Bird"}), "parent_class", {"Animal", "animal", "Bird"}),
                  "methods", {<<"speak">>, <<"speak", "__init__">>})
    ELSE IF action = "add_abstract_method"
    THEN Optional(Optional(Targeted(action, {"Animal", "cat", "Bird"}), "method_name", MethodNames),
                  "parameters", ParameterLists)
    ELSE \* an action the dispatch table does not hold, or no action at all
         Optional({[action |-> a] : a \in {"unknown", "add", "rename", "get_class", "add_inheritance",
                                           "add_polymorphism", "ADD_METHOD"}}
                  \cup {[method_name |-> "eat"]},
                  "target_class", {"Animal"})

\* the state before any call
NotCalled == [kind |-> "none", value |-> <<>>, by |-> "none", gen |-> <<>>]

Init ==
    /\ original_code \in Sources
    /\ code_analysis = extract_code_structure(original_code)
    /\ command_text = ""
    /\ command_intent = <<>>
    /\ modified_code = NotCalled
    /\ pc = "loaded"
    /\ edits = <<>>

\* In each action below a caller that holds a loaded source hands the mutator an intent
\* of one action; ProcessCommand or GenerateModifiedCode then runs the call.
AddMethod ==
    /\ pc = "loaded"
    /\ command_intent' \in Intents("add_method")
    /\ pc' = "called"
    /\ UNCHANGED <<original_code, code_analysis, command_text, modified_code, edits>>

RemoveMethod ==
    /\ pc = "loaded"
    /\ command_intent' \in Intents("remove_method")
    /\ pc' = "called"
    /\ UNCHANGED <<original_code, code_analysis, command_text, modified_code, edits>>

AddClass ==
    /\ pc = "loaded"
    /\ command_intent' \in Intents("add_class")
    /\ pc' = "called"
    /\ UNCHANGED <<original_code, code_analysis, command_text, modified_code, edits>>

RemoveClass ==
    /\ pc = "loaded"
    /\ command_intent' \in Intents("remove_class")
    /\ pc' = "called"
    /\ UNCHANGED <<original_code, code_analysis, command_text, modified_code, edits>>

AddAttribute ==
    /\ pc = "loaded"
    /\ command_intent' \in Intents("add_attribute")
    /\ pc' = "called"
    /\ UNCHANGED <<original_code, code_analysis, command_text, modified_code, edits>>

RemoveAttribute ==
    /\ pc = "loaded"
    /\ command_intent' \in Intents("remove_attribute")
    /\ pc' = "called"
    /\ UNCHANGED <<original_code, code_analysis, command_text, modified_code, edits>>

RenameClass ==
    /\ pc = "loaded"
    /\ command_intent' \in Intents("rename_class")
    /\ pc' = "called"
    /\ UNCHANGED <<original_code, code_analysis, command_text, modified_code, edits>>

RenameMethod ==
    /\ pc = "loaded"
    /\ command_intent' \in Intents("rename_method")
    /\ pc' = "called"
    /\ UNCHANGED <<original_code, code_analysis, command_text, modified_code, edits>>

AddFunction ==
    /\ pc = "loaded"
    /\ command_intent' \in Intents("add_function")
    /\ pc' = "called"
    /\ UNCHANGED <<original_code, code_analysis, command_text, modified_code, edits>>

RemoveFunction ==
    /\ pc = "loaded"
    /\ command_intent' \in Intents("remove_function")
    /\ pc' = "called"
    /\ UNCHANGED <<original_code, code_analysis, command_text, modified_code, edits>>

AddLoop ==
    /\ pc = "loaded"
    /\ command_intent' \in Intents("add_loop")
    /\ pc' = "called"
    /\ UNCHANGED <<original_code, code_analysis, command_text, modified_code, edits>>

AddConditional ==
    /\ pc = "loaded"
    /\ command_intent' \in Intents("add_conditional")
    /\ pc' = "called"
    /\ UNCHANGED <<original_code, code_analysis, command_text, modified_code, edits>>

ImplementInterface ==
    /\ pc = "loaded"
    /\ command_intent' \in Intents("implement_interface")
    /\ pc' = "called"
    /\ UNCHANGED <<original_code, code_analysis, command_text, modified_code, edits>>

ApplyPolymorphism ==
    /\ pc = "loaded"
    /\ command_intent' \in Intents("apply_polymorphism")
    /\ pc' = "called"
    /\ UNCHANGED <<original_code, code_analysis, command_text, modified_code, edits>>

AddAbstractMethod ==
    /\ pc = "loaded"
    /\ command_intent' \in Intents("add_abstract_method")
    /\ pc' = "called"
    /\ UNCHANGED <<original_code, code_analysis, command_text, modified_code, edits>>

UnsupportedAction ==
    /\ pc = "loaded"
    /\ command_intent' \in Intents("unsupported")
    /\ pc' = "called"
    /\ UNCHANGED <<original_code, code_analysis, command_text, modified_code, edits>>

\* modified_code = process_command(original_code, command_intent, code_analysis).
\* load_analysis keeps a reference to the caller's inventory, so what an operation
\* writes into self.code_analysis is written into the inventory the caller holds.
ProcessCommand ==
    /\ pc = "called"
    /\ modified_code' = process_command(original_code, command_intent, code_analysis)
    /\ code_analysis' = modified_code'.gen.code_analysis
    /\ pc' = "returned"
    /\ UNCHANGED <<original_code, command_text, command_intent, edits>>

\* a CodeGenerator loaded by hand with the code, the intent as it is and the inventory,
\* and asked for the modified code
GenerateModifiedCode ==
    /\ pc = "called"
    /\ edits = <<>>
    /\ modified_code' = generate_modified_code([original_code_lines |-> original_code,
                                                code_analysis |-> code_analysis,
                                                intent |-> command_intent])
    /\ code_analysis' = modified_code'.gen.code_analysis
    /\ pc' = "generated"
    /\ UNCHANGED <<original_code, command_text, command_intent, edits>>

Next ==
    \/ AddMethod
    \/ RemoveMethod
    \/ AddClass
    \/ RemoveClass
    \/ AddAttribute
    \/ RemoveAttribute
    \/ RenameClass
    \/ RenameMethod
    \/ AddFunction
    \/ RemoveFunction
    \/ AddLoop
    \/ AddConditional
    \/ ImplementInterface
    \/ ApplyPolymorphism
    \/ AddAbstractMethod
    \/ UnsupportedAction
    \/ ProcessCommand
    \/ GenerateModifiedCode

Spec == Init /\ [][Next]_vars

(***************************************************************************)
(* The round trip: an add action, the result loaded back and analyzed      *)
(* again, then the inverse action for the same name.                       *)
(***************************************************************************)

\* the add intents that name their class and their member and nothing more
RoundTripAdds ==
    { i \in Intents("add_method") : DOMAIN i = {"action", "target_class", "method_name"} }
    \cup { i \in Intents("add_class") : DOMAIN i = {"action", "class_name"} }
    \cup { i \in Intents("add_attribute") : DOMAIN i = {"action", "target_class", "attribute_name"} }

\* the remove intent for the name an add intent added
Inverse(intent) ==
    IF intent.action = "add_method"
    THEN [action |-> "remove_method", target_class |-> intent.target_class, method_name |-> intent.method_name]
    ELSE IF intent.action = "add_class"
    THEN [action |-> "remove_class", class_name |-> intent.class_name]
    ELSE [action |-> "remove_attribute", target_class |-> intent.target_class,
          attribute_name |-> intent.attribute_name]

\* whether the edit last loaded back was an add
LastIsAdd ==
    /\ edits # <<>>
    /\ edits[Len(edits)].command_intent.action \in {"add_method", "add_class", "add_attribute"}

RoundTripAdd ==
    /\ pc = "loaded"
    /\ ~LastIsAdd
    /\ command_intent' \in RoundTripAdds
    /\ pc' = "called"
    /\ UNCHANGED <<original_code, code_analysis, command_text, modified_code, edits>>

RoundTripInverse ==
    /\ pc = "loaded"
    /\ LastIsAdd
    /\ command_intent' = Inverse(edits[Len(edits)].command_intent)
    /\ pc' = "called"
    /\ UNCHANGED <<original_code, code_analysis, command_text, modified_code, edits>>

\* the caller takes a result that is no error string as its source and analyzes it
Reanalyze ==
    /\ pc = "returned"
    /\ Len(edits) < 2 * MaxEdits - 1
    /\ modified_code.kind = "return" /\ ~IsErrorText(modified_code.value)
    /\ edits' = Append(edits, [original_code |-> original_code, command_intent |-> command_intent])
    /\ original_code' = modified_code.value
    /\ code_analysis' = extract_code_structure(modified_code.value)
    /\ pc' = "loaded"
    /\ UNCHANGED <<command_text, command_intent, modified_code>>

NextRoundTrip ==
    \/ RoundTripAdd
    \/ ProcessCommand
    \/ Reanalyze
    \/ RoundTripInverse

SpecRoundTrip == Init /\ [][NextRoundTrip]_vars

(***************************************************************************)
(* The pipeline of javis.py: an instruction is parsed, the intent is fixed *)
(* and handed to the mutator.                                              *)
(***************************************************************************)
Commands ==
    { "Add a method called eat to Animal class",
      "Rename Animal class to Mammal.",
      "Add a method called eat with parameter food to Animal class",
      "Create a function named feed with parameters width and height in Cat class",
      "Delete the speak method from the Dog class",
      "Delete sound method from Animal class",
      "Add a class called Customer",
      "Remove the Cat class",
      "Add attribute age to Animal class",
      "Remove the name attribute from Animal class",
      "Rename the speak method to talk in the Animal class",
      "Rename the Animal class to Mammal",
      "Add a standalone function called run outside any class",
      "Delete the function feed",
      "Add a for loop to the speak method",
      "Add a while loop to the feed function",
      "Add if/else conditional to the speak method",
      "Make Dog class inherit from Animal class",
      "Add polymorphism by overriding speak method",
      "Rename the class to Dog",
      "hello",
      "Put a loop in the speak method",
      "Override the speak method in Dog class",
      "Add a loop to override the speak method",
      "Add a for loop with an if statement to the speak method",
      "Remove the loop from the speak method",
      "Delete the print statement from the speak method",
      "Add abstract method eat to Animal class" }

\* intent = parser.parse_command(cmd)
ParseCommand ==
    /\ pc = "loaded"
    /\ \E cmd \in Commands :
         /\ command_text' = cmd
         /\ command_intent' = parse_command(cmd)
    /\ pc' = "parsed"
    /\ UNCHANGED <<original_code, code_analysis, modified_code, edits>>

\* modified_code = process_command_with_generator(original_code, command_intent, code_analysis)
ProcessCommandWithGenerator ==
    /\ pc = "parsed"
    /\ modified_code' = process_command_with_generator(original_code, command_intent, code_analysis)
    /\ code_analysis' = modified_code'.gen.code_analysis
    /\ pc' = "returned"
    /\ UNCHANGED <<original_code, command_text, command_intent, edits>>

NextPipeline ==
    \/ ParseCommand
    \/ ProcessCommandWithGenerator

SpecPipeline == Init /\ [][NextPipeline]_vars

(***************************************************************************)
(* The analysis of a pasted text: the session of javis.py takes the input  *)
(* as the code and analyzes it.                                            *)
(***************************************************************************)
NestedBlock ==
    << "class Outer:",
       "    class Inner:",
       "        pass",
       "    def make(self):",
       "        class Local:",
       "            pass" >>

GuardedBlock ==
    << "if True:",
       "    class Hidden:",
       "        pass" >>

FactoryBlock ==
    << "def factory():",
       "    class Made:",
       "        pass",
       "    return Made" >>

FlagBlock == << "class Flag: pass" >>

NotedBlock ==
    << "class Noted:",
       "    x = 1",
       "",
       "    # the end",
       "" >>

PastedBlocks ==
    <<AnimalBlock, CatBlock, FeedBlock, NestedBlock, GuardedBlock, FactoryBlock, FlagBlock, NotedBlock>>

\* the texts of at most MaxBlocks blocks, in any order, a block more than once too,
\* and the texts that do not parse
PastedSources ==
    UNION { { FlattenSeq([k \in 1..n |-> PastedBlocks[run[k]]]) :
                run \in [1..n -> 1..Len(PastedBlocks)] } : n \in 1..MaxBlocks }
    \cup {BrokenSource, UnindentedSource, DedentSource}

InitPasted ==
    /\ original_code \in PastedSources
    /\ code_analysis = <<>>
    /\ command_text = ""
    /\ command_intent = <<>>
    /\ modified_code = NotCalled
    /\ pc = "pasted"
    /\ edits = <<>>

\* code_analysis = extract_code_structure(original_code)
Analyze ==
    /\ pc = "pasted"
    /\ code_analysis' = extract_code_structure(original_code)
    /\ pc' = "loaded"
    /\ UNCHANGED <<original_code, command_text, command_intent, modified_code, edits>>

NextAnalyze == Analyze

SpecAnalyze == InitPasted /\ [][NextAnalyze]_vars

(***************************************************************************)
(* The syntax-tree rewriter of main_flow/code_transformer.py (javis.py     *)
(* carries the same text).  libcst keeps every character of a node it does *)
(* not rebuild, so a rewrite is modelled on the lines of the nodes: a node *)
(* is a statement's header line with the lines of its block.  The model's  *)
(* sources give every class an indented block of statements, four spaces a *)
(* level, with no blank line, comment or decorator inside.                 *)
(***************************************************************************)

\* a comparison of names that takes no account of the case of the letters
NameMatches_folded(value, name) == lower(value) = lower(name)

\* original_node.name.value == self.class_name, node.name.value == self.method_name
NameMatches(value, name) == value = name

\* the ClassDef nodes of a text, nested ones too: indices into its significant lines
ClassNodes(lines) ==
    LET sig == SigLines(lines)
    IN  SelectIdx([k \in 1..Len(sig) |-> k], LAMBDA k : IsClass(lines[sig[k]]))

\* the FunctionDef nodes of node.body.body for the class at significant line k
BodyFunctionDefs(lines, k) ==
    LET sig  == SigLines(lines)
        body == BodySig(lines, sig, k)
    IN  SelectIdx(body, LAMBDA j : IsDef(lines[sig[body[j]]]))

\* a text without the node at significant line m
WithoutNode(lines, m) ==
    LET sig == SigLines(lines)
    IN  ListDelete(lines, sig[m] - 1, sig[EndSig(lines, sig, m)])

\* a header line with the name of its node replaced
WithName(line, name) ==
    LET t    == lstrip(line)
        word == IF IsClass(line) THEN "class " ELSE "def "
    IN  get_indentation(line) \o word \o name \o PyFrom(t, Len(word) + Len(DefName(line)))

\* the transformers as the dispatcher constructs them
AddMethodToClassTransformer(method_name, class_name) ==
    [transformer |-> "AddMethodToClassTransformer", method_name |-> method_name, class_name |-> class_name]

DeleteMethodFromClassTransformer(method_name, class_name) ==
    [transformer |-> "DeleteMethodFromClassTransformer", method_name |-> method_name,
     class_name |-> class_name]

ModifyMethodInClassTransformer(method_name, class_name, modification_type, new_content) ==
    [transformer |-> "ModifyMethodInClassTransformer", method_name |-> method_name,
     class_name |-> class_name, modification_type |-> modification_type, new_content |-> new_content]

RenameClassTransformer(old_class_name, new_class_name) ==
    [transformer |-> "RenameClassTransformer", old_class_name |-> old_class_name,
     new_class_name |-> new_class_name]

DeleteClassTransformer(class_name) ==
    [transformer |-> "DeleteClassTransformer", class_name |-> class_name]

\* AddMethodToClassTransformer.leave_ClassDef on the class at significant line k:
\* the new FunctionDef is generated at the indentation of the block it is appended to
AddMethodLeave(t, lines, k) ==
    LET sig  == SigLines(lines)
        body == BodySig(lines, sig, k)
        defs == BodyFunctionDefs(lines, k)
        end  == sig[EndSig(lines, sig, k)]
        ind  == get_indentation(lines[sig[body[1]]])
    IN  IF ~NameMatches(DefName(lines[sig[k]]), t.class_name) THEN lines
        ELSE IF \E j \in 1..Len(defs) : NameMatches(DefName(lines[sig[defs[j]]]), t.method_name)
        THEN lines
        ELSE SubSeq(lines, 1, end)
                 \o << ind \o "def " \o t.method_name \o "(self):", ind \o "    pass" >>
                 \o SubSeq(lines, end + 1, Len(lines))

RECURSIVE WithoutFunctionDefs(_, _, _, _)
\* the class at significant line k without the first j FunctionDefs of its body that
\* carry the name, the last of them removed first
WithoutFunctionDefs(lines, k, method_name, j) ==
    IF j = 0 THEN lines
    ELSE LET sig == SigLines(lines)
             m   == BodyFunctionDefs(lines, k)[j]
         IN  WithoutFunctionDefs(
                 IF NameMatches(DefName(lines[sig[m]]), method_name) THEN WithoutNode(lines, m)
                 ELSE lines,
                 k, method_name, j - 1)

\* DeleteMethodFromClassTransformer.leave_ClassDef: a block left without a statement
\* is generated as "pass"
DeleteMethodLeave(t, lines, k) ==
    LET sig  == SigLines(lines)
        body == BodySig(lines, sig, k)
        end  == sig[EndSig(lines, sig, k)]
        ind  == get_indentation(lines[sig[body[1]]])
        Goes(j) == /\ IsDef(lines[sig[body[j]]])
                   /\ NameMatches(DefName(lines[sig[body[j]]]), t.method_name)
    IN  IF ~NameMatches(DefName(lines[sig[k]]), t.class_name) THEN lines
        ELSE IF \A j \in 1..Len(body) : Goes(j)
        THEN SubSeq(lines, 1, sig[k]) \o << ind \o "pass" >> \o SubSeq(lines, end + 1, Len(lines))
        ELSE WithoutFunctionDefs(lines, k, t.method_name, Len(BodyFunctionDefs(lines, k)))

\* ModifyMethodInClassTransformer.leave_ClassDef
ModifyMethodLeave(t, lines, k) ==
    LET sig  == SigLines(lines)
        defs == BodyFunctionDefs(lines, k)
        hit  == { sig[defs[j]] : j \in { i \in 1..Len(defs) :
                      NameMatches(DefName(lines[sig[defs[i]]]), t.method_name) } }
    IN  IF ~NameMatches(DefName(lines[sig[k]]), t.class_name) THEN lines
        ELSE IF t.modification_type = "rename" /\ Truthy(t.new_content)
        THEN [i \in 1..Len(lines) |-> IF i \in hit THEN WithName(lines[i], t.new_content)
                                      ELSE lines[i]]
        ELSE lines

\* RenameClassTransformer.leave_ClassDef
RenameClassLeave(t, lines, k) ==
    LET sig == SigLines(lines)
    IN  IF NameMatches(DefName(lines[sig[k]]), t.old_class_name)
        THEN [i \in 1..Len(lines) |-> IF i = sig[k] THEN WithName(lines[i], t.new_class_name)
                                      ELSE lines[i]]
        ELSE lines

\* the leave_ClassDef of a transformer
leave_ClassDef(t, lines, k) ==
    IF t.transformer = "AddMethodToClassTransformer" THEN AddMethodLeave(t, lines, k)
    ELSE IF t.transformer = "DeleteMethodFromClassTransformer" THEN DeleteMethodLeave(t, lines, k)
    ELSE IF t.transformer = "ModifyMethodInClassTransformer" THEN ModifyMethodLeave(t, lines, k)
    ELSE IF t.transformer = "RenameClassTransformer" THEN RenameClassLeave(t, lines, k)
    ELSE lines

RECURSIVE leave_Module(_, _, _)
\* DeleteClassTransformer.leave_Module over the first n statements of the module body,
\* the last of them first
leave_Module(t, lines, n) ==
    IF n = 0 THEN lines
    ELSE LET sig == SigLines(lines)
             top == SelectIdx([k \in 1..Len(sig) |-> k], LAMBDA k : Indent(lines[sig[k]]) = 0)
             m   == top[n]
         IN  leave_Module(t,
                 IF IsClass(lines[sig[m]]) /\ NameMatches(DefName(lines[sig[m]]), t.class_name)
                 THEN WithoutNode(lines, m) ELSE lines,
                 n - 1)

RECURSIVE VisitClassDefs(_, _, _)
\* the traversal leaves a class after the classes inside it: the first n classes of the
\* text are visited, the last of them first
VisitClassDefs(t, lines, n) ==
    IF n = 0 THEN lines
    ELSE VisitClassDefs(t, leave_ClassDef(t, lines, ClassNodes(lines)[n]), n - 1)

\* module.visit(transformer).code
Visit(t, lines) ==
    IF t.transformer = "DeleteClassTransformer"
    THEN LET sig == SigLines(lines)
         IN  leave_Module(t, lines, Cardinality({ k \in 1..Len(sig) : Indent(lines[sig[k]]) = 0 }))
    ELSE VisitClassDefs(t, lines, Len(ClassNodes(lines)))

\* transformer = None
NoTransformer == [transformer |-> None]

\* the transformer the dispatcher selects
SelectTransformer(intent, entities, full_text) ==
    LET element_type == Get(entities, "element_type")
        name         == Get(entities, "name")
        class_name   == Get(entities, "class_name")
        new_name     == Get(entities, "new_name")
    IN  IF intent = "add"
        THEN IF element_type = "method" /\ Truthy(name) /\ Truthy(class_name)
             THEN AddMethodToClassTransformer(name, class_name)
             ELSE NoTransformer
        ELSE IF intent = "delete"
        THEN IF element_type = "method" /\ Truthy(name) /\ Truthy(class_name)
             THEN DeleteMethodFromClassTransformer(name, class_name)
             ELSE IF element_type = "class" /\ Truthy(name)
             THEN DeleteClassTransformer(name)
             ELSE NoTransformer
        ELSE IF intent = "modify"
        THEN IF Contains(lower(full_text), "rename")
             THEN IF element_type = "method" /\ Truthy(name) /\ Truthy(class_name) /\ Truthy(new_name)
                  THEN ModifyMethodInClassTransformer(name, class_name, "rename", new_name)
                  ELSE IF element_type = "class" /\ Truthy(name) /\ Truthy(new_name)
                  THEN RenameClassTransformer(name, new_name)
                  ELSE NoTransformer
             ELSE NoTransformer
        ELSE NoTransformer

\* what modify_code_with_libcst answers: the text, and the branch that answered.
\* Where cst.parse_module rejects the text the except branch answers
modify_code_with_libcst(code, intent, entities, full_text) ==
    LET Answer(lines, branch) == [kind |-> "return", value |-> lines, by |-> branch, gen |-> <<>>]
    IN  IF ~ParseOK(code) THEN Answer(code, "except")
        ELSE LET transformer == SelectTransformer(intent, entities, full_text)
             IN  IF transformer = NoTransformer THEN Answer(code, "return code")
                 ELSE Answer(Visit(transformer, code), transformer.transformer)

\* a class inside a class of the same name, each with a method of the same name
ShadowBlock ==
    << "class Animal:",
       "    class Animal:",
       "        def speak(self):",
       "            pass",
       "    def speak(self):",
       "        pass" >>

\* a class of one method
BirdBlock ==
    << "class Bird:",
       "    def speak(self):",
       "        pass" >>

RewriteBlocks == <<AnimalBlock, DogBlock, ShadowBlock, BirdBlock, FeedBlock, NestedBlock>>

RewriteSources ==
    { FlattenSeq([k \in 1..Len(RewriteBlocks) |-> IF k \in chosen THEN RewriteBlocks[k] ELSE <<>>])
          \o <<"">> :
        chosen \in { c \in SUBSET (1..Len(RewriteBlocks)) : Cardinality(c) \in 1..MaxBlocks } }
    \cup {BrokenSource, DedentSource}

\* the labels of the intent classifier
RewriteIntents == {"add", "delete", "modify", "explain"}

\* the entities extract_entities_with_nlp can fill in: each key is there or not
RewriteEntities ==
    { [k \in keys |-> f[k]] :
        keys \in SUBSET {"element_type", "name", "class_name", "new_name"},
        f \in [element_type : {"method", "class"},
               name : {"speak", "Speak", "Animal", "animal"},
               class_name : {"Animal", "animal", "Bird"},
               new_name : {"talk"}] }

RewriteTexts == {"Rename it to talk", "Call it talk"}

InitRewrite ==
    /\ original_code \in RewriteSources
    /\ code_analysis = <<>>
    /\ command_text = ""
    /\ command_intent = <<>>
    /\ modified_code = NotCalled
    /\ pc = "pasted"
    /\ edits = <<>>

\* nlu_result = extract_intent_and_entities(text): a trained classifier's label and the
\* entities found in the text
ExtractIntentAndEntities ==
    /\ pc = "pasted"
    /\ \E intent \in RewriteIntents, entities \in RewriteEntities, text \in RewriteTexts :
          /\ intent = "modify" \/ text = "Call it talk"
          /\ command_text' = text
          /\ command_intent' = [intent |-> intent, entities |-> entities]
    /\ pc' = "classified"
    /\ UNCHANGED <<original_code, code_analysis, modified_code, edits>>

\* modified_code = modify_code_with_libcst(code, intent, entities, full_text)
ModifyCodeWithLibcst ==
    /\ pc = "classified"
    /\ modified_code' = modify_code_with_libcst(original_code, command_intent.intent,
                                                command_intent.entities, command_text)
    /\ pc' = "rewritten"
    /\ UNCHANGED <<original_code, code_analysis, command_text, command_intent, edits>>

NextRewrite ==
    \/ ExtractIntentAndEntities
    \/ ModifyCodeWithLibcst

SpecRewrite == InitRewrite /\ [][NextRewrite]_vars

(***************************************************************************)
(* Intents handed over by a caller other than the parser: process_command  *)
(* and process_command_with_generator are public functions, and a front    *)
(* end may leave a field out or hold None under it.                        *)
(***************************************************************************)
HandedSources ==
    { AnimalBlock \o <<"">>, AnimalBlock \o LowerBlock \o <<"">>, DogBlock \o CatBlock \o <<"">>,
      BrokenSource, <<"">> }

HandedActions == {"rename_class", "add_method", "add_inheritance"}

\* each field is absent, None, or a name
HandedIntents ==
    { [k \in keys \cup {"action"} |-> IF k = "action" THEN action ELSE f[k]] :
        action \in HandedActions,
        keys \in SUBSET {"target_class", "old_name", "new_class_name", "parent_class"},
        f \in [{"target_class", "old_name", "new_class_name", "parent_class"} ->
                  {None, "the", "animal"}] }

InitHanded ==
    /\ original_code \in HandedSources
    /\ code_analysis = extract_code_structure(original_code)
    /\ command_text = ""
    /\ command_intent = <<>>
    /\ modified_code = NotCalled
    /\ pc = "loaded"
    /\ edits = <<>>

\* a caller of process_command
HandToProcessCommand ==
    /\ pc = "loaded"
    /\ command_intent' \in HandedIntents
    /\ pc' = "called"
    /\ UNCHANGED <<original_code, code_analysis, command_text, modified_code, edits>>

\* a caller of process_command_with_generator
HandToGenerator ==
    /\ pc = "loaded"
    /\ command_intent' \in HandedIntents
    /\ pc' = "parsed"
    /\ UNCHANGED <<original_code, code_analysis, command_text, modified_code, edits>>

NextHanded ==
    \/ HandToProcessCommand
    \/ HandToGenerator
    \/ ProcessCommand
    \/ ProcessCommandWithGenerator

SpecHanded == InitHanded /\ [][NextHanded]_vars

(***************************************************************************)
(* The interactive session of javis.py: a loop that reads one line and     *)
(* takes the branch the line selects.  No code is held where original_code *)
(* is the empty sequence, no inventory where code_analysis is.  The        *)
(* branches that only print (help, examples, show, intent) hold nothing.   *)
(***************************************************************************)

\* the files a load command reads
SessionFiles ==
    { AnimalBlock \o <<"">>, DogBlock \o CatBlock \o <<"">>, CatBlock \o FeedBlock \o <<"">>, BrokenSource }

\* the lines typed while no code is held, taken as the code
SessionPastes ==
    { "class Flag: pass", "", "Add a method called eat to Animal class" }

\* the lines typed while code is held
SessionCommands ==
    { "Add a method called eat to Animal class",
      "Rename Animal class to Mammal.",
      "Remove the Cat class",
      "Remove the name attribute from Animal class",
      "Delete the function feed",
      "Add a for loop to the speak method",
      "Add abstract method eat to Animal class",
      "hello" }

\* parser.parse_command(cmd) for each of these lines
SessionIntents == [cmd \in SessionCommands |-> parse_command(cmd)]

\* the session keeping the inventory it held when a command produced a new text
HeldAfter_stale(outcome, code, analysis) ==
    IF outcome.kind = "return" /\ ~IsErrorText(outcome.value)
    THEN <<outcome.value, analysis>>
    ELSE <<code, outcome.gen.code_analysis>>

\* what the session holds after a command: the new text and its analysis, or, after an
\* answer that starts with "Error:" or an exception, the text as it was and the
\* inventory object it handed over
HeldAfter(outcome, code, analysis) ==
    IF outcome.kind = "return" /\ ~IsErrorText(outcome.value)
    THEN <<outcome.value, extract_code_structure(outcome.value)>>
    ELSE <<code, outcome.gen.code_analysis>>

InitSession ==
    /\ original_code = <<>>
    /\ code_analysis = <<>>
    /\ command_text = ""
    /\ command_intent = <<>>
    /\ modified_code = NotCalled
    /\ pc = "prompt"
    /\ edits = <<>>

\* load <file.py>, for a file that is there and can be read
SessionLoad ==
    /\ original_code' \in SessionFiles
    /\ code_analysis' = extract_code_structure(original_code')
    /\ pc' = "loaded"
    /\ UNCHANGED <<command_text, command_intent, modified_code, edits>>

\* analyze, with code held
SessionAnalyze ==
    /\ original_code \notin {<<>>, <<"">>}
    /\ code_analysis' = extract_code_structure(original_code)
    /\ pc' = "analyzed"
    /\ UNCHANGED <<original_code, command_text, command_intent, modified_code, edits>>

\* clear
SessionClear ==
    /\ original_code' = <<>>
    /\ code_analysis' = <<>>
    /\ pc' = "cleared"
    /\ UNCHANGED <<command_text, command_intent, modified_code, edits>>

\* a line typed while no code is held
SessionPaste ==
    /\ original_code = <<>>
    /\ \E cmd \in SessionPastes : original_code' = <<cmd>>
    /\ code_analysis' = extract_code_structure(original_code')
    /\ pc' = "pasted"
    /\ UNCHANGED <<command_text, command_intent, modified_code, edits>>

\* a line typed while code and inventory are held: it is parsed, the intent is handed
\* to the mutator, and a result that is no error becomes the code held
SessionCommand ==
    /\ original_code \notin {<<>>, <<"">>}
    /\ code_analysis # <<>>
    /\ \E cmd \in SessionCommands :
         /\ command_text' = cmd
         /\ command_intent' = SessionIntents[cmd]
         /\ modified_code' = process_command_with_generator(original_code, command_intent', code_analysis)
    /\ original_code' = HeldAfter(modified_code', original_code, code_analysis)[1]
    /\ code_analysis' = HeldAfter(modified_code', original_code, code_analysis)[2]
    /\ Len(edits) < MaxEdits \/ original_code' = original_code
    /\ edits' = IF original_code' = original_code THEN edits ELSE Append(edits, [original_code |-> original_code, command_intent |-> command_intent'])
    /\ pc' = "commanded"

NextSession ==
    \/ SessionLoad
    \/ SessionAnalyze
    \/ SessionClear
    \/ SessionPaste
    \/ SessionCommand

SpecSession == InitSession /\ [][NextSession]_vars

(***************************************************************************)
(* Properties.                                                             *)
(***************************************************************************)

\* a call has been answered
Answered == pc \in {"returned", "generated"}

\* the action of the intent handed over, None when it has none
Action == Get(command_intent, "action")

\* the intent the generator worked on: the normalized one after process_command
Worked == modified_code.gen.intent

\* the inventory as the analysis of the source the caller holds builds it
Analyzed == extract_code_structure(original_code)

\* C1: every call of process_command or generate_modified_code, for every intent and
\* inventory, returns a string (the new source or one starting with "Error:"); no
\* exception reaches the caller.
C1_NoExceptionEscapes ==
    Answered => modified_code.kind = "return"

\* C1, the failing call: remove_method without a method name on a class that has methods
C1_RemoveMethodRaises ==
    /\ pc = "returned"
    /\ command_intent = [action |-> "remove_method", target_class |-> "Animal"]
    /\ modified_code.kind = "raise"
    /\ modified_code.value = <<"AttributeError">>

\* C2: an action of the dispatch table is answered by the operation of that name, and
\* every other action value, a missing action included, is answered by the string
\* "Error: Unsupported action ..." with nothing edited.
C2_DispatcherTotal ==
    Answered =>
        IF Action \in SeqToSet(ActionTable)
        THEN modified_code.by = Action
        ELSE /\ modified_code.kind = "return"
             /\ modified_code.by = "generate_modified_code"
             /\ Len(modified_code.value) = 1
             /\ startswith(modified_code.value[1], "Error: Unsupported action")
             /\ modified_code.gen.original_code_lines = original_code
             /\ modified_code.gen.code_analysis = Analyzed

\* C2, its case: a bare base action is answered as unsupported
C2_UnsupportedAnswered ==
    /\ pc = "returned"
    /\ Action = "add"
    /\ modified_code.value = <<"Error: Unsupported action add">>

\* C3: add_method or add_abstract_method on an existing class with no method_name in
\* the intent is answered by a string starting with "Error:", not by edited source.
C3_MissingFieldIsError ==
    ( /\ Answered
      /\ Action \in {"add_method", "add_abstract_method"}
      /\ "method_name" \notin DOMAIN command_intent
      /\ "target_class" \in DOMAIN Worked
      /\ InClasses(code_analysis, Worked["target_class"]) )
    => modified_code.kind = "return" /\ IsErrorText(modified_code.value)

\* C3, the failing call: the method added is named None
C3_MethodNamedNone ==
    /\ pc = "returned"
    /\ command_intent = [action |-> "add_method", target_class |-> "Animal"]
    /\ modified_code.kind = "return"
    /\ "    def None(self):" \in SeqToSet(modified_code.value)

\* the target class of the intent resolves, in any letter case, to a class none of
\* whose methods has the intent's method name in any letter case
NoSuchMethod ==
    /\ "target_class" \in DOMAIN command_intent
    /\ "method_name" \in DOMAIN command_intent
    /\ LookupClassCI(code_analysis, command_intent["target_class"]) # None
    /\ LET class_info == ClassOf(code_analysis, LookupClassCI(code_analysis, command_intent["target_class"]))
       IN  \A k \in 1..Len(class_info.methods) :
               lower(class_info.methods[k].name) # lower(command_intent["method_name"])

\* C4: remove_method for a class that resolves and a method name that matches none of
\* its methods returns a string starting with "Error:" and leaves the loaded lines as
\* they were.
C4_RemoveMissingMethod ==
    (Answered /\ Action = "remove_method" /\ NoSuchMethod)
    => /\ modified_code.kind = "return"
       /\ IsErrorText(modified_code.value)
       /\ modified_code.gen.original_code_lines = original_code

\* C4, its case: no method eat in class Animal
C4_EatNotFound ==
    /\ pc = "returned"
    /\ command_intent = [action |-> "remove_method", target_class |-> "animal", method_name |-> "eat"]
    /\ modified_code.value = <<"Error: Method eat not found in class Animal">>

\* the lines as add_method must leave them: the new block of method M after line n
\* of the class named class_name, everything else in place, and the block a method of
\* that class when the result is analyzed
BlockInserted(before, after, n, M, class_name) ==
    /\ Len(after) = Len(before) + 2
    /\ SubSeq(after, 1, n) = SubSeq(before, 1, n)
    /\ SubSeq(after, n + 3, Len(after)) = SubSeq(before, n + 1, Len(before))
    /\ lstrip(after[n + 1]) = "def " \o M \o "(self):"
    /\ after[n + 2] = get_indentation(after[n + 1]) \o "    pass"
    /\ LET again == extract_code_structure(after)
       IN  /\ again.status = "success"
           /\ InClasses(again, class_name)
           /\ \E k \in 1..Len(ClassOf(again, class_name).methods) :
                 /\ ClassOf(again, class_name).methods[k].name = M
                 /\ ClassOf(again, class_name).methods[k].location = [line_start |-> n + 1, line_end |-> n + 2]

IsIdentifierChar(c) == isalnum(c) \/ c = "_"

\* the positions of line at which word occurs as a whole word
WholeWordAt(line, word) ==
    { i \in 0..(Len(line) - Len(word)) :
        /\ PySlice(line, i, i + Len(word)) = word
        /\ i = 0 \/ ~IsIdentifierChar(At(line, i - 1))
        /\ i + Len(word) = Len(line) \/ ~IsIdentifierChar(At(line, i + Len(word))) }

\* a rename of class O to another name N has been answered with edited source
Renamed(O, N) ==
    /\ Answered
    /\ Action = "rename_class"
    /\ modified_code.kind = "return"
    /\ ~IsErrorText(modified_code.value)
    /\ InClasses(code_analysis, O)
    /\ LookupClassCI(code_analysis, GetOr(Worked, "old_name", Get(Worked, "target_class"))) = O
    /\ GetOr(Worked, "new_name", None) = N
    /\ O # N

\* the positions of line at which word occurs inside a longer identifier
EmbeddedAt(line, word) ==
    { i \in 0..(Len(line) - Len(word)) : PySlice(line, i, i + Len(word)) = word } \ WholeWordAt(line, word)

\* C6: after a rename of class O to N no line holds O as a whole word, and every line
\* holds O inside longer identifiers as often as it did.
C6_RenameWholeWordsOnly ==
    \A O \in {"Animal", "Cat"}, N \in {"Mammal", "Dog"} :
        Renamed(O, N) =>
            \A i \in 1..Len(original_code) :
                /\ WholeWordAt(modified_code.value[i], O) = {}
                /\ Cardinality(EmbeddedAt(modified_code.value[i], O))
                      = Cardinality(EmbeddedAt(original_code[i], O))

\* C6, the failing call: the identifier Animal_count is rewritten
C6_LongerIdentifierRewritten ==
    /\ Renamed("Animal", "Mammal")
    /\ "Animal_count = Animal(\"x\")" \in SeqToSet(original_code)
    /\ "Mammal_count = Mammal(\"x\")" \in SeqToSet(modified_code.value)

\* C7: the pipeline on "Rename Animal class to Mammal." and a source that defines
\* class Animal yields a text whose class definition line is "class Mammal:".
C7_RenameKeepsCasing ==
    ( /\ pc = "returned"
      /\ command_text = "Rename Animal class to Mammal."
      /\ "class Animal:" \in SeqToSet(original_code) )
    => "class Mammal:" \in SeqToSet(modified_code.value)

\* C7, the failing run: the class comes out as mammal
C7_LowerCasedName ==
    /\ pc = "returned"
    /\ command_text = "Rename Animal class to Mammal."
    /\ "class mammal:" \in SeqToSet(modified_code.value)

\* C8: parse_command("Add a method called eat to Animal class") has action
\* add_method, method_name eat and target_class Animal, as written.
C8_ParseKeepsCasing ==
    (pc = "parsed" /\ command_text = "Add a method called eat to Animal class")
    => /\ Get(command_intent, "action") = "add_method"
       /\ Get(command_intent, "method_name") = "eat"
       /\ Get(command_intent, "target_class") = "Animal"

\* C8, the failing run: the class name comes out lower-cased
C8_LowerCasedTarget ==
    /\ pc = "parsed"
    /\ command_text = "Add a method called eat to Animal class"
    /\ command_intent = [action |-> "add_method", method_name |-> "eat", target_class |-> "animal"]

\* the class names of an inventory, and the method and attribute names by class
NameSets(analysis) ==
    LET cs == Classes(analysis)
    IN  [classes |-> { cs[i].name : i \in 1..Len(cs) },
         methods |-> UNION { { <<cs[i].name, cs[i].methods[k].name>> : k \in 1..Len(cs[i].methods) } :
                             i \in 1..Len(cs) },
         attributes |-> UNION { { <<cs[i].name, cs[i].attributes[k].name>> : k \in 1..Len(cs[i].attributes) } :
                                i \in 1..Len(cs) }]

\* the inverse of the add that was loaded back has been answered, for a source that parses
RoundTripDone ==
    /\ pc = "returned"
    /\ LastIsAdd
    /\ command_intent = Inverse(edits[Len(edits)].command_intent)
    /\ extract_code_structure(edits[Len(edits)].original_code).status = "success"

\* C9: an add action, the result analyzed again, then the inverse action for the same
\* name give a text that parses and has the class, method and attribute names of the
\* source the round trip began with.
C9_RoundTrip ==
    RoundTripDone =>
        /\ modified_code.kind = "return"
        /\ ~IsErrorText(modified_code.value)
        /\ extract_code_structure(modified_code.value).status = "success"
        /\ NameSets(extract_code_structure(modified_code.value))
              = NameSets(extract_code_structure(edits[Len(edits)].original_code))

\* C9, the failing run: the constructor add_attribute wrote for Cat is left without a body
C9_EmptyConstructorLeft ==
    /\ RoundTripDone
    /\ command_intent = [action |-> "remove_attribute", target_class |-> "Cat", attribute_name |-> "age"]
    /\ modified_code.kind = "return"
    /\ "    def __init__(self):" \in SeqToSet(modified_code.value)
    /\ extract_code_structure(modified_code.value).status = "error"

\* the intent fields that name a class of the source
ClassNameFields == {"target_class", "class_name", "old_name", "parent_class", "interface_class", "child_class"}

\* field f of the intent holds a letter-case variant of the name of a class
IsVariant(f) ==
    /\ f \in DOMAIN command_intent
    /\ ~InClasses(Analyzed, command_intent[f])
    /\ LookupClassCI(Analyzed, command_intent[f]) # None

\* what process_command answers when field f holds the class name as the source writes it
ExactCased(f) ==
    process_command(original_code,
                    [command_intent EXCEPT ![f] = LookupClassCI(Analyzed, command_intent[f])],
                    Analyzed)

\* C10: with a letter-case variant of a class name in a class-name field,
\* process_command answers as it does for the name as written in the source, and
\* does not answer that the class is not found.
C10_CaseInsensitive ==
    pc = "returned" =>
        \A f \in ClassNameFields :
            IsVariant(f) =>
                /\ modified_code.kind = ExactCased(f).kind
                /\ modified_code.value = ExactCased(f).value
                /\ modified_code.value # <<"Error: Class " \o command_intent[f] \o " not found">>

\* C10, the failing call: remove_class does not find Animal under the name animal
C10_VariantNotFound ==
    /\ pc = "returned"
    /\ command_intent = [action |-> "remove_class", class_name |-> "animal"]
    /\ InClasses(code_analysis, "Animal")
    /\ modified_code.value = <<"Error: Class animal not found">>

\* line_start <= line_end
Ordered(location) == location.line_start <= location.line_end

\* every location an inventory stores is ordered: of each class, of each method and
\* attribute of a class, and of each function
LocationsOrdered(analysis) ==
    /\ \A i \in 1..Len(Classes(analysis)) :
          LET class_info == Classes(analysis)[i]
          IN  /\ Ordered(class_info.location)
              /\ \A k \in 1..Len(class_info.methods) : Ordered(class_info.methods[k].location)
              /\ \A k \in 1..Len(class_info.attributes) : Ordered(class_info.attributes[k].location)
    /\ \A i \in 1..Len(Functions(analysis)) : Ordered(Functions(analysis)[i].location)

\* C11: in the inventory the caller holds, after the analysis and after every call of
\* the mutator on it, every stored location has line_start <= line_end.
C11_LocationsOrdered ==
    LocationsOrdered(code_analysis)

\* C11, the failing call: add_abstract_method inserts the import line and moves the
\* first line of the attribute name of Animal past its last line
C11_AttributeStartsAfterEnd ==
    /\ pc = "returned"
    /\ command_intent = [action |-> "add_abstract_method", target_class |-> "Animal", method_name |-> "eat"]
    /\ LocationsOrdered(Analyzed)
    /\ InClasses(code_analysis, "Animal")
    /\ ClassOf(code_analysis, "Animal").attributes[1].name = "name"
    /\ ClassOf(code_analysis, "Animal").attributes[1].location.line_start = 4
    /\ ClassOf(code_analysis, "Animal").attributes[1].location.line_end = 3

\* a line and what an operation left in its place: the same line, or a class or def
\* header rewritten where it stands
SameLine(before, after) ==
    \/ before = after
    \/ startswith(lstrip(before), "class ") /\ startswith(lstrip(after), "class ")
    \/ startswith(lstrip(before), "def ") /\ startswith(lstrip(after), "def ")

\* longer is shorter with one run of lines inserted at one index
OneRunInserted(shorter, longer) ==
    /\ Len(longer) > Len(shorter)
    /\ \E n \in 0..Len(shorter) :
          \A i \in 1..Len(shorter) :
              SameLine(shorter[i], longer[IF i <= n THEN i ELSE i + Len(longer) - Len(shorter)])

\* an operation has returned edited source
Edited ==
    /\ Answered
    /\ modified_code.kind = "return"
    /\ ~IsErrorText(modified_code.value)

\* C12: the lines an operation returns are the original lines with at most one insert
\* at one line index or one delete of one contiguous range: they have the original's
\* length, or one run of lines more, or one range of lines less.
C12_OneInsertOrDelete ==
    Edited =>
        \/ Len(modified_code.value) = Len(original_code)
        \/ OneRunInserted(original_code, modified_code.value)
        \/ OneRunInserted(modified_code.value, original_code)

\* C12, the failing call: add_abstract_method inserts the import line at index 0 and
\* the method after the class's last line, the lines of the class between the two
C12_TwoInserts ==
    /\ Edited
    /\ command_intent = [action |-> "add_abstract_method", target_class |-> "Animal", method_name |-> "eat"]
    /\ original_code = AnimalBlock \o <<"">>
    /\ modified_code.value[1] = "from abc import ABC, abstractmethod"
    /\ SubSeq(modified_code.value, 3, 6) = SubSeq(original_code, 2, 5)
    /\ lstrip(modified_code.value[7]) = "@abstractmethod"
    /\ Len(modified_code.value) = Len(original_code) + 4

\* an inventory that lists no class and no function
EmptyInventory == [status |-> "success", classes |-> <<>>, functions |-> <<>>]

\* what the call that was answered answers when handed the empty inventory
AsIfEmpty ==
    IF pc = "returned" THEN process_command(original_code, command_intent, EmptyInventory)
    ELSE generate_modified_code([original_code_lines |-> original_code,
                                 code_analysis |-> EmptyInventory,
                                 intent |-> command_intent])

TopClassLines(lines) ==
    { i \in 1..Len(lines) : Indent(lines[i]) = 0 /\ startswith(lines[i], "class ") }

\* the last line of the body of the statement whose header is line i: the last line
\* with a statement before the next statement at column 0
LastBodyLine(lines, i) ==
    LET later == { j \in (i + 1)..Len(lines) : ~IsBlankLine(lines[j]) /\ Indent(lines[j]) = 0 }
        stop  == IF later = {} THEN Len(lines) + 1 ELSE Min(later)
    IN  Max({ j \in i..(stop - 1) : ~IsBlankLine(lines[j]) })

\* the classes map holds a class for the header at line i, from that line to the last
\* line of its body
ListedAt(analysis, lines, i) ==
    \E k \in 1..Len(Classes(analysis)) :
        /\ Classes(analysis)[k].name = DefName(lines[i])
        /\ Classes(analysis)[k].location = [line_start |-> i, line_end |-> LastBodyLine(lines, i)]

\* C14: for a source that parses, the classes map holds exactly the class statements
\* of the module itself, one entry for each, none for a class nested in a class, a
\* function or a block; each entry spans from the header line to the last line of the
\* body, with line_start <= line_end.
C14_ModuleLevelClasses ==
    (pc = "loaded" /\ ParseOK(original_code)) =>
        /\ \A i \in TopClassLines(original_code) : ListedAt(code_analysis, original_code, i)
        /\ \A k \in 1..Len(Classes(code_analysis)) :
              /\ Classes(code_analysis)[k].location.line_start \in TopClassLines(original_code)
              /\ Ordered(Classes(code_analysis)[k].location)
        /\ Len(Classes(code_analysis)) = Cardinality(TopClassLines(original_code))

\* C14, the failing analysis: of two classes named Cat the map holds the second only
C14_FirstDefinitionLost ==
    /\ pc = "loaded"
    /\ original_code = CatBlock \o CatBlock
    /\ TopClassLines(original_code) = {1, 3}
    /\ Len(Classes(code_analysis)) = 1
    /\ Classes(code_analysis)[1].name = "Cat"
    /\ Classes(code_analysis)[1].location = [line_start |-> 3, line_end |-> 4]

\* the keywords of the action table
BaseKeywords ==
    UNION { SeqToSet(action_patterns[i].keywords) : i \in 1..Len(action_patterns) }

\* no keyword of the action table is a word of the instruction
NoBaseKeyword ==
    BaseKeywords \cap SeqToSet(SplitWords(lower(command_text))) = {}

\* C15: an instruction none of whose words is a base-action keyword of the action
\* table is parsed to an intent whose action is "unknown".
C15_NoKeywordIsUnknown ==
    (pc = "parsed" /\ NoBaseKeyword) => Get(command_intent, "action") = "unknown"

\* C15, the failing parse: no keyword, but the word loop makes the action add_loop
C15_LoopWithoutKeyword ==
    /\ pc = "parsed"
    /\ command_text = "Put a loop in the speak method"
    /\ NoBaseKeyword
    /\ Get(command_intent, "action") = "add_loop"

\* the lower-cased instruction holds the loop trigger, a conditional trigger
HasLoopTrigger == Contains(lower(command_text), "loop")

HasConditionalTrigger == AnyIn({"conditional", "if/else", "switch", "statement"}, lower(command_text))

\* C16: an instruction that contains "loop" is parsed to the action add_loop, and one
\* that contains "conditional", "if/else", "switch" or "statement" to the action
\* add_conditional, whatever action the base action and the target type compose.
C16_TriggerForcesAction ==
    pc = "parsed" =>
        /\ HasLoopTrigger => Get(command_intent, "action") = "add_loop"
        /\ HasConditionalTrigger => Get(command_intent, "action") = "add_conditional"

\* C16, the failing parse: the instruction holds "loop" and no conditional trigger,
\* and the word override makes the action add_polymorphism
C16_LoopOverridden ==
    /\ pc = "parsed"
    /\ command_text = "Add a loop to override the speak method"
    /\ HasLoopTrigger
    /\ ~HasConditionalTrigger
    /\ Get(command_intent, "action") = "add_polymorphism"

\* the source holds an import of abc, as add_abstract_method looks for it
HasAbcImport ==
    \E k \in 1..Len(original_code) :
        Contains(original_code[k], "import abc") \/ Contains(original_code[k], "from abc import")

\* C17: a call leaves the lines the generator loaded as they were, and leaves the
\* inventory as the analysis built it unless the call is add_abstract_method on a
\* source without an abc import, the one case in which the import line is inserted.
C17_InventoryAndLinesKept ==
    Answered =>
        /\ modified_code.gen.original_code_lines = original_code
        /\ code_analysis # Analyzed =>
              /\ modified_code.by = "add_abstract_method"
              /\ ~HasAbcImport
              /\ modified_code.value[1] = "from abc import ABC, abstractmethod"

\* C17, its cases: add_abstract_method on a source that imports abc edits the source
\* and leaves the inventory alone
C17_ImportFoundInventoryKept ==
    /\ Edited
    /\ modified_code.by = "add_abstract_method"
    /\ HasAbcImport
    /\ "    @abstractmethod" \in SeqToSet(modified_code.value)
    /\ code_analysis = Analyzed
    /\ Classes(code_analysis) # <<>>


\* modify_code_with_libcst has answered
Rewritten == pc = "rewritten"

\* the entity of the request under a key, None when it has none
Entity(key) == Get(command_intent.entities, key)

\* no class statement of the source carries exactly this name
NoClassNamed(name) ==
    \A i \in 1..Len(original_code) :
        ~(IsClass(original_code[i]) /\ DefName(original_code[i]) = name)

\* no def statement of the source carries exactly this name
NoDefNamed(name) ==
    \A i \in 1..Len(original_code) :
        ~(IsDef(original_code[i]) /\ DefName(original_code[i]) = name)

\* the request names a class, or a method of a class, the source does not have
NothingMatches ==
    \/ Entity("element_type") = "method" /\ NoClassNamed(Entity("class_name"))
    \/ /\ Entity("element_type") = "method"
       /\ command_intent.intent \in {"delete", "modify"}
       /\ NoDefNamed(Entity("name"))
    \/ Entity("element_type") = "class" /\ NoClassNamed(Entity("name"))

\* the intent kind and the entities select no transformer
NothingSelected ==
    \/ command_intent.intent \notin {"add", "delete", "modify"}
    \/ Entity("element_type") \notin {"method", "class"}
    \/ ~Truthy(Entity("name"))
    \/ Entity("element_type") = "method" /\ ~Truthy(Entity("class_name"))
    \/ Entity("element_type") = "class" /\ command_intent.intent = "add"
    \/ /\ command_intent.intent = "modify"
       /\ ~Contains(lower(command_text), "rename") \/ ~Truthy(Entity("new_name"))

\* C18: modify_code_with_libcst returns the text it was given, and raises nothing,
\* whenever no class or method carries the requested name in exactly the same case,
\* whenever the intent kind and the entities select no transformer, and whenever the
\* text does not parse
C18_UnmatchedRequestKeepsText ==
    Rewritten /\ (NothingMatches \/ NothingSelected \/ ~ParseOK(original_code)) =>
        /\ modified_code.kind = "return"
        /\ modified_code.value = original_code

\* a method is to be added to class "animal" of a source whose class is "Animal": the
\* transformer is selected, visits the tree, and the text comes back as it was
C18_CaseVariantKept ==
    /\ Rewritten
    /\ command_intent.intent = "add"
    /\ Entity("element_type") = "method"
    /\ Entity("class_name") = "animal"
    /\ Entity("name") = "Animal"
    /\ ~NoClassNamed("Animal")
    /\ modified_code.by = "AddMethodToClassTransformer"
    /\ modified_code.value = original_code


\* the intent fix_common_intent_issues returns for the intent handed over
Fixed == fix_common_intent_issues(command_intent, Analyzed)

\* the intent process_command builds from it
Normalized == normalized_intent(Fixed, Analyzed)

\* the indices of the inventory's classes whose lower-cased name is the lower-cased value
SameFolded(value) ==
    LET classes == GetOr(Analyzed, "classes", <<>>)
    IN  { i \in 1..Len(classes) : lower(classes[i].name) = lower(value) }

\* the first such class in the inventory's order, the value where there is none
Canonical(value) ==
    IF SameFolded(value) = {} THEN value
    ELSE GetOr(Analyzed, "classes", <<>>)[Min(SameFolded(value))].name

\* the fields whose names are resolved
ResolvedFields ==
    {"target_class", "old_name", "new_name", "parent_class", "interface_class", "child_class"}

\* the session has answered an instruction
Processed == pc = "returned" /\ command_text # ""

\* the fields fix_common_intent_issues fills in or repairs before the names are resolved
AliasedFields == {"target_class", "old_name", "new_name"}

\* C19: after fix_common_intent_issues and process_command's normalization each
\* class-name field holds the first inventory class that equals its value when both
\* are lower-cased, and its value where there is none; the values resolved are those
\* left by the repair and the aliasing of fix_common_intent_issues, which fill in
\* old_name and new_name and may replace target_class; every field of the caller's
\* intent other than these three has the resolution of its value or, outside the six,
\* its value
C19_ResolvedAfterAliasing ==
    Processed =>
        /\ DOMAIN Normalized = DOMAIN Fixed
        /\ DOMAIN command_intent \subseteq DOMAIN Fixed
        /\ DOMAIN Fixed \subseteq DOMAIN command_intent \cup AliasedFields
        /\ \A k \in DOMAIN Fixed :
              Normalized[k] = IF k \in ResolvedFields THEN Canonical(Fixed[k]) ELSE Fixed[k]
        /\ \A k \in DOMAIN command_intent \ AliasedFields :
              Normalized[k] = IF k \in ResolvedFields THEN Canonical(command_intent[k])
                              ELSE command_intent[k]
        /\ process_command(original_code, Fixed, Analyzed).kind = "return" => Worked = Normalized

\* "Make Dog class inherit from Animal class" on a source that defines Animal before
\* animal and no class Dog: the parser hands over parent_class "animal", which also is
\* a class of the inventory, and the mutator works with "Animal", the first of the
\* two, and with child_class "dog" as it was handed over
C19_FirstOfTwoTaken ==
    /\ Processed
    /\ Get(command_intent, "parent_class") = "animal"
    /\ Cardinality(SameFolded("animal")) = 2
    /\ SameFolded("dog") = {}
    /\ Get(Worked, "parent_class") = "Animal"
    /\ Get(Worked, "child_class") = "dog"

\* C19 as stated: each class-name field of the intent handed over that matches a
\* class holds the first such class, a field that matches none, and every other field,
\* is as it was handed over
C19_OnlyMatchesChange ==
    Processed =>
        /\ DOMAIN Normalized = DOMAIN command_intent
        /\ \A k \in DOMAIN command_intent :
              Normalized[k] = IF k \in ResolvedFields THEN Canonical(command_intent[k])
                              ELSE command_intent[k]


\* the exception of the call comes from the normalization, not from an operation
NormalizationRaised ==
    /\ modified_code.kind = "raise"
    /\ modified_code.by \in {"process_command", "fix_common_intent_issues"}

\* C20: fix_common_intent_issues and the normalization of process_command raise for no
\* intent and no inventory, an error inventory and an intent that lacks fields included
C20_NormalizationTotal == pc = "returned" => ~NormalizationRaised

\* process_command_with_generator is handed an intent whose target_class is None, with
\* the inventory of a text that does not parse: fix_common_intent_issues raises
\* AttributeError and the caller receives it
C20_NoneTargetRaises ==
    /\ pc = "returned"
    /\ original_code = BrokenSource
    /\ command_intent = [action |-> "add_method", target_class |-> None]
    /\ modified_code.kind = "raise"
    /\ modified_code.value = <<"AttributeError">>
    /\ modified_code.by = "fix_common_intent_issues"


\* the call returned a text that is no error string
Succeeded ==
    /\ Answered
    /\ modified_code.kind = "return"
    /\ ~IsErrorText(modified_code.value)

\* the class of the source the operation that answered resolves its target to
ResolvedTarget ==
    IF modified_code.by \in {"add_attribute", "remove_attribute", "remove_method"}
    THEN LookupClassCI(Analyzed, Get(command_intent, "target_class"))
    ELSE Get(Worked, "target_class")

\* the leading whitespace of the definition line of the first method of a class of the
\* source, four spaces for a class without a method
SiblingIndentation(class_name) ==
    LET class_info == ClassOf(Analyzed, class_name)
    IN  IF class_info.methods = <<>> THEN "    "
        ELSE get_indentation(original_code[class_info.methods[1].location.line_start])

\* the names of the definitions the operation that answered adds to its target class
AddedMembers ==
    LET intent == Worked
        by     == modified_code.by
        target == ClassOf(Analyzed, ResolvedTarget)
        Has(info, name) == \E k \in 1..Len(info.methods) : info.methods[k].name = name
    IN  IF by \in {"add_method", "add_abstract_method"} THEN {Str(Get(intent, "method_name"))}
        ELSE IF by = "add_attribute" THEN (IF Has(target, "__init__") THEN {} ELSE {"__init__"})
        ELSE IF by = "implement_interface"
        THEN { Str(Get(m, "name")) : m \in SeqToSet(GetOr(intent, "methods", <<>>)) }
        ELSE IF by = "apply_polymorphism"
        THEN { m \in SeqToSet(GetOr(intent, "methods", <<>>)) :
                 /\ Has(ClassOf(Analyzed, Get(intent, "parent_class")), m)
                 /\ ~Has(target, m) }
        ELSE {}

\* the number of lines of a text that begin with a prefix
LinesWith(lines, prefix) == Cardinality({ i \in 1..Len(lines) : startswith(lines[i], prefix) })

\* C21: add_method, add_attribute without a constructor, implement_interface,
\* apply_polymorphism and add_abstract_method emit each new definition line with the
\* leading whitespace of the definition line of the target class's first method, four
\* spaces when the class has none, add_abstract_method also after it inserted the import
C21_SiblingIndentation ==
    Succeeded /\ Truthy(ResolvedTarget) /\ InClasses(Analyzed, ResolvedTarget) =>
        \A name \in AddedMembers :
            LET prefix == SiblingIndentation(ResolvedTarget) \o "def " \o name \o "("
            IN  LinesWith(modified_code.value, prefix) > LinesWith(original_code, prefix)

\* add_abstract_method adds eat to Animal in a source without an abc import: the first
\* method of Animal is indented by four spaces, the new definition line by eight
C21_AbstractMethodTooDeep ==
    /\ Succeeded
    /\ modified_code.by = "add_abstract_method"
    /\ Get(command_intent, "target_class") = "Animal"
    /\ Get(command_intent, "method_name") = "eat"
    /\ InClasses(Analyzed, "Animal")
    /\ SiblingIndentation("Animal") = "    "
    /\ modified_code.value[1] = "from abc import ABC, abstractmethod"
    /\ \E i \in 1..Len(modified_code.value) :
          startswith(modified_code.value[i], "        def eat(self")
    /\ LinesWith(modified_code.value, "    def eat(") = 0


\* the constructor of the resolved target class in the inventory of the source, as a
\* sequence of at most one entry
Constructor ==
    IF Truthy(ResolvedTarget) /\ InClasses(Analyzed, ResolvedTarget)
    THEN SelectSeq(ClassOf(Analyzed, ResolvedTarget).methods, LAMBDA m : m.name = "__init__")
    ELSE <<>>

\* a line with ", name" put in front of its first closing parenthesis
WithParameter(line, name) ==
    PyTo(line, find(line, ")", 0)) \o ", " \o name \o PyFrom(line, find(line, ")", 0))

\* a text without its line i
WithoutLine(lines, i) == SubSeq(lines, 1, i - 1) \o SubSeq(lines, i + 1, Len(lines))

\* C22: add_attribute of a on a class with a constructor returns the source with the
\* line "self.a = a" added inside the constructor's body, the constructor's definition
\* line with a added to its parameters unless add_parameter is false, and every other
\* line as it was, whatever the shape of the constructor
C22_AttributeInConstructor ==
    Succeeded /\ modified_code.by = "add_attribute" /\ Constructor # <<>> =>
        LET init   == Constructor[1].location
            a      == Get(command_intent, "attribute_name")
            result == modified_code.value
            def    == IF GetOr(command_intent, "add_parameter", TRUE)
                      THEN WithParameter(original_code[init.line_start], a)
                      ELSE original_code[init.line_start]
        IN  \E i \in (init.line_start + 1)..(init.line_end + 1) :
                /\ i <= Len(result)
                /\ strip(result[i]) = "self." \o a \o " = " \o a
                /\ WithoutLine(result, i) = [original_code EXCEPT ![init.line_start] = def]

\* age is added to Bird, whose constructor is one line: the new definition line stands
\* where the assignment was inserted, the old definition line follows it, and the text
\* has no line that assigns self.age
C22_OneLineConstructorDoubled ==
    /\ Succeeded
    /\ modified_code.by = "add_attribute"
    /\ original_code = InlineSource
    /\ Get(command_intent, "attribute_name") = "age"
    /\ "add_parameter" \notin DOMAIN command_intent
    /\ modified_code.value = << "class Bird:",
                                "    def __init__(self, name, age): self.name = name",
                                "    def __init__(self, name): self.name = name",
                                "" >>


\* the attribute remove_attribute resolves its attribute_name to, as a sequence of at
\* most one entry of the inventory of the source
ResolvedAttribute ==
    IF Truthy(ResolvedTarget) /\ InClasses(Analyzed, ResolvedTarget)
    THEN LET hits == SelectSeq(ClassOf(Analyzed, ResolvedTarget).attributes,
                               LAMBDA at : lower(at.name) = lower(Str(Get(command_intent, "attribute_name"))))
         IN  IF hits = <<>> THEN <<>> ELSE <<hits[1]>>
    ELSE <<>>

\* the parts of a definition line before and after its parameter list
AroundParameters(line) == << PyTo(line, find(line, "(", 0) + 1), PyFrom(line, find(line, ")", 0)) >>

\* C23: remove_attribute deletes the attribute's assignment line and nothing else, and
\* where the constructor has a parameter of the attribute's name, in any letter case,
\* the constructor's definition line loses exactly that parameter: the other parameters
\* keep their order, the rest of the line and every other line are unchanged; the
\* definition line of a constructor without such a parameter is unchanged
C23_AttributeAndParameterRemoved ==
    Succeeded /\ modified_code.by = "remove_attribute" /\ ResolvedAttribute # <<>> =>
        LET a        == Get(command_intent, "attribute_name")
            at       == ResolvedAttribute[1].location.line_start
            result   == modified_code.value
            restored == SubSeq(result, 1, at - 1) \o <<original_code[at]>> \o SubSeq(result, at, Len(result))
            ls       == IF Constructor = <<>> THEN 0 ELSE Constructor[1].location.line_start
            Named(arg) == lower(arg) = lower(a)
            has_param  == ls > 0 /\ \E k \in 1..Len(Constructor[1].arguments) : Named(Constructor[1].arguments[k])
        IN  /\ Len(result) = Len(original_code) - 1
            /\ \A k \in 1..Len(original_code) : k # ls => restored[k] = original_code[k]
            /\ ls > 0 /\ ~has_param => restored[ls] = original_code[ls]
            /\ has_param =>
                  /\ ArgNames(restored[ls]) = SelectSeq(ArgNames(original_code[ls]), LAMBDA arg : ~Named(arg))
                  /\ AroundParameters(restored[ls]) = AroundParameters(original_code[ls])

\* name is removed from Bird, whose constructor declares name=None: the assignment
\* line is deleted and the definition line still declares the parameter
C23_DefaultedParameterKept ==
    /\ Succeeded
    /\ modified_code.by = "remove_attribute"
    /\ original_code = DefaultSource
    /\ Get(command_intent, "attribute_name") = "name"
    /\ modified_code.value = << "class Bird:", "    def __init__(self, name=None, age=0):", "" >>


\* the names of the stubs the operation that answered inserts, in the order of the
\* intent's list
StubNames ==
    LET methods == GetOr(Worked, "methods", <<>>)
    IN  IF modified_code.by = "implement_interface"
        THEN [i \in 1..Len(methods) |-> Str(Get(methods[i], "name"))]
        ELSE SelectSeq(methods, LAMBDA m : m \in AddedMembers)

\* the names after def of the definition lines of a text, in the order of the lines
DefNames(lines) ==
    LET defs == SelectSeq(lines, LAMBDA l : startswith(strip(l), "def "))
    IN  [i \in 1..Len(defs) |-> WordPrefix(PyFrom(strip(defs[i]), 4))]

\* an operation that inserts stubs has answered with a text, for a class of the source
StubsInserted ==
    /\ Succeeded
    /\ modified_code.by \in {"implement_interface", "apply_polymorphism"}
    /\ Truthy(ResolvedTarget)
    /\ InClasses(Analyzed, ResolvedTarget)

\* C24: implement_interface and apply_polymorphism insert their stubs as one run of
\* lines that starts right after the last line of the target class, in the order of
\* the intent's list, and every line of the source after the class follows the run
C24_StubsInOneRun ==
    StubsInserted =>
        LET class_info == ClassOf(Analyzed, ResolvedTarget)
            first  == class_info.location.line_start
            last   == class_info.location.line_end
            result == modified_code.value
            after  == Len(original_code) - last
            per    == IF modified_code.by = "implement_interface" THEN 2 ELSE 5
            run    == SubSeq(result, last + 1, Len(result) - after)
        IN  /\ Len(result) = Len(original_code) + per * Len(StubNames)
            /\ \A k \in 1..last : k # first => result[k] = original_code[k]
            /\ DefNames(run) = StubNames
            /\ \A k \in 1..Len(run) : get_indentation(run[k]) # ""
            /\ SubSeq(result, Len(result) - after + 1, Len(result))
                   = SubSeq(original_code, last + 1, Len(original_code))

\* two stubs were inserted after a class that other definitions follow
C24_TwoStubsBeforeTheRest ==
    /\ StubsInserted
    /\ Len(StubNames) = 2
    /\ StubNames[1] # StubNames[2]
    /\ LET last == ClassOf(Analyzed, ResolvedTarget).location.line_end
       IN  /\ last + 1 < Len(original_code)
           /\ DefNames(SubSeq(modified_code.value, last + 1, Len(modified_code.value)
                                                             - (Len(original_code) - last))) = StubNames


\* add_abstract_method has answered after it inserted the import line: the source
\* holds no import of abc and the target class is in its inventory
ImportInserted ==
    /\ Answered
    /\ modified_code.kind = "return"
    /\ modified_code.by = "add_abstract_method"
    /\ ~HasAbcImport
    /\ InClasses(Analyzed, Get(Worked, "target_class"))

\* both bounds of a location are one greater than they were
OneGreater(before, after) ==
    /\ after.line_start = before.line_start + 1
    /\ after.line_end = before.line_end + 1

\* C25: after add_abstract_method inserted the import line, every line_start and every
\* line_end the inventory stores for a class, a method or an attribute is one greater
\* than before the call
C25_AllBoundsShifted ==
    ImportInserted =>
        /\ Len(Classes(code_analysis)) = Len(Classes(Analyzed))
        /\ \A i \in 1..Len(Classes(Analyzed)) :
              LET before == Classes(Analyzed)[i]
                  after  == Classes(code_analysis)[i]
              IN  /\ OneGreater(before.location, after.location)
                  /\ \A k \in 1..Len(before.methods) :
                        OneGreater(before.methods[k].location, after.methods[k].location)
                  /\ \A k \in 1..Len(before.attributes) :
                        OneGreater(before.attributes[k].location, after.attributes[k].location)

\* the import line was inserted and an attribute's first line moved while its last
\* line stayed
C25_AttributeEndStays ==
    /\ ImportInserted
    /\ Succeeded
    /\ modified_code.value[1] = "from abc import ABC, abstractmethod"
    /\ \E i \in 1..Len(Classes(Analyzed)) :
          \E k \in 1..Len(Classes(Analyzed)[i].attributes) :
              LET before == Classes(Analyzed)[i].attributes[k].location
                  after  == Classes(code_analysis)[i].attributes[k].location
              IN  /\ after.line_start = before.line_start + 1
                  /\ after.line_end = before.line_end

\* the line number of the definition a rename that answered resolves its old name to,
\* 0 when it resolves to none
RenamedLine ==
    LET intent == Worked
        target == Get(intent, "target_class")
        old    == Get(intent, "old_name")
    IN  IF modified_code.by = "rename_class"
        THEN LET old_name == GetOr(intent, "old_name", target)
                 first    == IF Truthy(old_name) THEN LookupClassCI(Analyzed, old_name) ELSE None
                 actual   == IF Truthy(first) THEN first
                             ELSE IF Truthy(target) THEN LookupClassCI(Analyzed, target) ELSE None
             IN  IF Truthy(actual) THEN ClassOf(Analyzed, actual).location.line_start ELSE 0
        ELSE LET entries == IF Truthy(target)
                            THEN (IF InClasses(Analyzed, target) THEN ClassOf(Analyzed, target).methods ELSE <<>>)
                            ELSE Functions(Analyzed)
                 hits    == SelectSeq(entries, LAMBDA e : e.name = old)
             IN  IF hits = <<>> THEN 0 ELSE hits[1].location.line_start

\* a definition line with the name after its keyword replaced: the indentation, the
\* keyword, one space, the new name, and what followed the old name
WithNewName(line, keyword, new_name) ==
    LET after == PyFrom(lstrip(line), Len(keyword) + 1)
    IN  get_indentation(line) \o keyword \o " " \o new_name \o PyFrom(after, Len(WordPrefix(after)))

\* rename_class or rename_method has answered with a text for a definition of the source
RenameApplied ==
    /\ Succeeded
    /\ modified_code.by \in {"rename_class", "rename_method"}
    /\ RenamedLine > 0

\* C26: after a successful rename_class or rename_method the definition line is the
\* original one with only the name after class or def replaced by the new name: the
\* keyword and the rest of the line are unchanged, whatever the name, also a name of
\* one letter
C26_OnlyNameTokenReplaced ==
    RenameApplied =>
        LET keyword == IF modified_code.by = "rename_class" THEN "class" ELSE "def"
            new_name == GetOr(Worked, "new_name", Get(Worked, "new_class_name"))
        IN  modified_code.value[RenamedLine] = WithNewName(original_code[RenamedLine], keyword, new_name)

\* the method f of class c is renamed to talk and the keyword def is rewritten, the
\* name after it left as it was
C26_KeywordRewritten ==
    /\ RenameApplied
    /\ original_code = LetterSource
    /\ Get(Worked, "old_name") = "f"
    /\ modified_code.value = << "class c:", "    detalk f(self):", "        pass", "" >>

\* the session holds a code and an inventory
BothHeld == original_code # <<>> /\ code_analysis # <<>>

ForcedActions == {"add_loop", "add_conditional", "add_polymorphism"}

\* C28: each action parse_command sets at the end of its cascade (add_loop,
\* add_conditional, add_polymorphism) is an entry of the mutator's dispatch table: an
\* instruction parsed to such an action is never answered with "Error: Unsupported
\* action"
C28_ForcedActionsDispatched ==
    Processed /\ Get(parse_command(command_text), "action") \in ForcedActions =>
        ~(modified_code.kind = "return" /\ startswith(modified_code.value[1], "Error: Unsupported action"))

\* the instruction to override speak in Dog is parsed to add_polymorphism, which the
\* dispatch table does not hold
C28_PolymorphismUnsupported ==
    /\ Processed
    /\ command_text = "Override the speak method in Dog class"
    /\ Get(command_intent, "action") = "add_polymorphism"
    /\ InClasses(Analyzed, "Dog")
    /\ modified_code.value = <<"Error: Unsupported action add_polymorphism">>

\* C29: the normalization of process_command leaves a class-name field as it is where
\* its value is the name of a class of the inventory, letter for letter, also where
\* the inventory holds another class whose name differs from it in case only
C29_ExactNamesKept ==
    pc = "returned" /\ modified_code.kind = "return" =>
        \A k \in ResolvedFields \cap DOMAIN command_intent :
            InClasses(Analyzed, command_intent[k]) =>
                k \in DOMAIN Worked /\ Worked[k] = command_intent[k]

\* the source defines Animal and, after it, animal; a method is asked for animal and
\* the intent the generator works on names Animal
C29_ExactNameReplaced ==
    /\ pc = "returned"
    /\ Succeeded
    /\ Get(command_intent, "action") = "add_method"
    /\ Get(command_intent, "target_class") = "animal"
    /\ InClasses(Analyzed, "animal")
    /\ InClasses(Analyzed, "Animal")
    /\ Get(Worked, "target_class") = "Animal"

\* a removal of a method, a class or a function has answered with a text
RemovalDone ==
    /\ Succeeded
    /\ modified_code.by \in {"remove_method", "remove_class", "remove_function"}

\* the entries of the generator's inventory the removal that answered resolves its
\* target to: the class of the name, the first function of the name, or the first
\* method of the name, in any letter case, of the first class of the name in any case
RemovalTargets ==
    LET inventory == modified_code.gen.code_analysis
        intent    == Worked
        by        == modified_code.by
    IN  IF by = "remove_class"
        THEN SelectSeq(Classes(inventory), LAMBDA c : c.name = Get(intent, "class_name"))
        ELSE IF by = "remove_function"
        THEN SelectSeq(Functions(inventory), LAMBDA f : f.name = Get(intent, "function_name"))
        ELSE LET owners == SelectSeq(Classes(inventory),
                                     LAMBDA c : lower(c.name) = lower(Str(Get(intent, "target_class"))))
             IN  IF owners = <<>> THEN <<>>
                 ELSE SelectSeq(owners[1].methods,
                                LAMBDA m : lower(m.name) = lower(Str(Get(intent, "method_name"))))

\* C30: a successful remove_method, remove_class or remove_function deletes the lines
\* line_start..line_end of the target it resolved and no other: the result is shorter
\* than the source by line_end - line_start + 1 lines, and its lines are the lines of
\* the source outside that range, in their order
C30_ExactRangeDeleted ==
    RemovalDone =>
        /\ RemovalTargets # <<>>
        /\ LET lines      == modified_code.gen.original_code_lines
               line_start == RemovalTargets[1].location.line_start
               line_end   == RemovalTargets[1].location.line_end
               result     == modified_code.value
           IN  /\ Len(result) = Len(lines) - (line_end - line_start + 1)
               /\ \A k \in 1..Len(result) :
                     result[k] = IF k < line_start THEN lines[k]
                                 ELSE lines[k + (line_end - line_start + 1)]

\* a target of more than one line, with lines before it and lines of code after it,
\* was removed
C30_RangeInTheMiddle ==
    /\ RemovalDone
    /\ RemovalTargets # <<>>
    /\ LET line_start == RemovalTargets[1].location.line_start
           line_end   == RemovalTargets[1].location.line_end
       IN  /\ 1 < line_start
           /\ line_start < line_end
           /\ line_end + 1 < Len(original_code)
           /\ Len(modified_code.value) = Len(original_code) - (line_end - line_start + 1)
           /\ modified_code.value[line_start] = original_code[line_end + 1]

=============================================================================
